---- MODULE Spec2Model ----
(***************************************************************************)
(* Multi-plane RANSAC extraction (src/source/ransac.cpp): get_planes,      *)
(* VoxelGrid, get_plane, get_inliers, total_least_squares_plane_estimate   *)
(* and check_same_normal.                                                  *)
(*                                                                         *)
(* Representation.  Points are integer triples (floats that hold small     *)
(* integers).  Sequences are 1-based: index q of the model is index q-1 of *)
(* the code.  The threshold thr is a positive integer.  A plane model is   *)
(* one of                                                                  *)
(*   - <<a, b, c, d>>, integers: the plane a x + b y + c z + d = 0.  The   *)
(*     code's model of a fit has the unit eigenvector as (a, b, c); the    *)
(*     model keeps the direction with coprime entries and carries the      *)
(*     squared length where a formula is not homogeneous;                  *)
(*   - <<0, 0, 1>>: the normal (0, 0, 1) with d a NaN;                     *)
(*   - <<>>: a plane whose coefficients a rounding decides;                *)
(*   - <<n, sx, sy, sz, b11, b12, b13, b22, b23, b33, err>>: the plane of  *)
(*     a sample of n points with coordinate sums (sx, sy, sz) whose        *)
(*     eigenvector v has no rational direction.  The plane holds the mean  *)
(*     (sx, sy, sz) / n, and b / ProjScale is the projector v v^T, every   *)
(*     entry within err / ProjScale of its value.                          *)
(*                                                                         *)
(* Rounding.  The code computes in floating point.  Every comparison of    *)
(* the code is decided here in integers, with a margin for the rounding of *)
(* the code's arithmetic.  Where the two sides of a comparison are closer  *)
(* than the margin, the outcome hangs on the compiler and the machine      *)
(* (contraction of a product and a sum, the precision of intermediate      *)
(* results), and the operator answers "rounding".  The actions then take   *)
(* the step with every outcome the comparison can have: a test of          *)
(* get_inliers counts the point or not, check_same_normal passes or fails, *)
(* and a fit whose eigenvector is not determined returns AnyModel, a plane *)
(* of which every test is open.  The variable `rounded` records that a     *)
(* step of the run was taken on such an outcome.                           *)
(***************************************************************************)
EXTENDS Integers, Sequences, FiniteSets, TLC

(***************************************************************************)
(* Bounds of the model and constants of the program.                       *)
(***************************************************************************)
\* largest max_iterations a caller passes
MaxIterations == 2
\* largest desired_num_planes a caller passes
MaxPlanes == 3
\* largest threshold thr a caller passes
MaxThr == 1
\* cv::theRNG() has made fewer than ShuffleSeeds draws since its default
\* state when get_planes is first called
ShuffleSeeds == 2
\* max_lo_iters of get_plane (line 518)
max_lo_iters_gp == 10
\* max_lo_inliers of get_plane (line 518)
max_lo_inliers_gp == 20
\* max_lo_iters of get_planes (line 147)
max_lo_iters == 3
\* max_lo_inliers of get_planes (line 147)
max_lo_inliers == 300
\* min_sample_size of get_plane (line 518)
min_sample_size == 3

(***************************************************************************)
(* Integer and vector helpers.                                             *)
(***************************************************************************)
Abs(x) == IF x < 0 THEN -x ELSE x

Max2(x, y) == IF x < y THEN y ELSE x

RECURSIVE Gcd(_, _)
Gcd(x, y) == IF y = 0 THEN x ELSE Gcd(y, x % y)

Dot3(u, v) == u[1] * v[1] + u[2] * v[2] + u[3] * v[3]

Sub3(u, v) == <<u[1] - v[1], u[2] - v[2], u[3] - v[3]>>

Cross3(u, v) == <<u[2] * v[3] - u[3] * v[2],
                  u[3] * v[1] - u[1] * v[3],
                  u[1] * v[2] - u[2] * v[1]>>

\* |x| + |y| + |z|
L1(v) == Abs(v[1]) + Abs(v[2]) + Abs(v[3])

RECURSIVE SumSeq(_)
SumSeq(s) == IF s = <<>> THEN 0 ELSE Head(s) + SumSeq(Tail(s))

RECURSIVE MaxSeq(_)
MaxSeq(s) == IF Len(s) = 1 THEN s[1] ELSE Max2(Head(s), MaxSeq(Tail(s)))

\* n is a power of two
RECURSIVE IsPow2(_)
IsPow2(n) == IF n <= 1 THEN n = 1 ELSE n % 2 = 0 /\ IsPow2(n \div 2)

\* the identity index sequence 1..n (random_pool, orig_pts_idx)
Iota(n) == [i \in 1..n |-> i]

\* squared length of the normal of a model
SqrNorm(model) == model[1] * model[1] + model[2] * model[2] + model[3] * model[3]

\* a x + b y + c z + d for a model and a point
Residual(model, p) == model[1] * p[1] + model[2] * p[2] + model[3] * p[3] + model[4]

\* one direction, one representative: coprime entries, first nonzero normal
\* entry positive (the sign and the length of an eigenvector do not change
\* the plane)
Canon(m) ==
  LET g == Gcd(Gcd(Gcd(Abs(m[1]), Abs(m[2])), Abs(m[3])), Abs(m[4]))
      s == IF m[1] # 0 THEN m[1] ELSE IF m[2] # 0 THEN m[2] ELSE m[3]
      e == IF s < 0 THEN -1 ELSE 1
  IN  IF g = 0 THEN m
      ELSE <<(e * m[1]) \div g, (e * m[2]) \div g, (e * m[3]) \div g, (e * m[4]) \div g>>

\* a default-constructed cv::Vec4f (lines 94, 156, 521): all zeros
ZeroModel == <<0, 0, 0, 0>>

\* the model of a fit on no points: the covariance is the zero matrix, its
\* third eigenvector is (0, 0, 1), and d = -(mean_z) is 0/0, a NaN; the
\* tuple has no fourth entry
NaNModel == <<0, 0, 1>>

\* d is a NaN
HasNaN(model) == Len(model) = 3

\* the model is a plane given by its projector
IsProjected(model) == Len(model) = 11

\* the model a fit writes when a rounding decides its eigenvector: the
\* tuple has no entry
AnyModel == <<>>

\* nothing is known of the model
IsAny(model) == Len(model) = 0

(***************************************************************************)
(* Exact arithmetic on natural numbers of any size: sequences of digits in *)
(* base BigBase, least significant first.                                  *)
(***************************************************************************)
BigBase == 10000

\* the digits of a natural number
RECURSIVE BigOf(_)
BigOf(n) == IF n = 0 THEN <<>> ELSE <<n % BigBase>> \o BigOf(n \div BigBase)

\* x * m for a digit sequence x and a factor 0 <= m <= 2^17, carry added
RECURSIVE BigMul(_, _, _)
BigMul(x, m, carry) ==
  IF x = <<>> THEN (IF carry = 0 THEN <<>> ELSE <<carry % BigBase>> \o BigMul(<<>>, m, carry \div BigBase))
  ELSE LET v == Head(x) * m + carry
       IN  <<v % BigBase>> \o BigMul(Tail(x), m, v \div BigBase)

\* x + y + carry
RECURSIVE BigAdd(_, _, _)
BigAdd(x, y, carry) ==
  IF x = <<>> /\ y = <<>> THEN (IF carry = 0 THEN <<>> ELSE <<carry>>)
  ELSE LET v == (IF x = <<>> THEN 0 ELSE Head(x)) + (IF y = <<>> THEN 0 ELSE Head(y)) + carry
       IN  <<v % BigBase>> \o BigAdd(IF x = <<>> THEN <<>> ELSE Tail(x),
                                     IF y = <<>> THEN <<>> ELSE Tail(y), v \div BigBase)

\* x - y - borrow for x >= y + borrow
RECURSIVE BigSub(_, _, _)
BigSub(x, y, borrow) ==
  IF x = <<>> THEN <<>>
  ELSE LET v == Head(x) - (IF y = <<>> THEN 0 ELSE Head(y)) - borrow
       IN  <<IF v < 0 THEN v + BigBase ELSE v>>
             \o BigSub(Tail(x), IF y = <<>> THEN <<>> ELSE Tail(y), IF v < 0 THEN 1 ELSE 0)

\* x without its leading zero digits
RECURSIVE BigTrim(_)
BigTrim(x) ==
  IF x # <<>> /\ x[Len(x)] = 0 THEN BigTrim(SubSeq(x, 1, Len(x) - 1)) ELSE x

\* x >= y for trimmed digit sequences, compared from digit i down
RECURSIVE BigGeqFrom(_, _, _)
BigGeqFrom(x, y, i) ==
  IF i = 0 THEN TRUE
  ELSE IF x[i] # y[i] THEN x[i] > y[i]
  ELSE BigGeqFrom(x, y, i - 1)

BigGeq(x, y) ==
  LET tx == BigTrim(x)
      ty == BigTrim(y)
  IN  IF Len(tx) # Len(ty) THEN Len(tx) > Len(ty) ELSE BigGeqFrom(tx, ty, Len(tx))

BigGreater(x, y) == ~BigGeq(y, x)

\* x times every factor of the sequence ms
RECURSIVE BigTimes(_, _)
BigTimes(x, ms) == IF ms = <<>> THEN x ELSE BigTimes(BigMul(x, Head(ms), 0), Tail(ms))

\* x * y for two digit sequences
RECURSIVE BigProd(_, _)
BigProd(x, y) ==
  IF y = <<>> THEN <<>>
  ELSE BigAdd(BigMul(x, Head(y), 0), <<0>> \o BigProd(x, Tail(y)), 0)

\* x * m^k
RECURSIVE BigScalePow(_, _, _)
BigScalePow(x, m, k) == IF k = 0 THEN x ELSE BigScalePow(BigProd(x, BigOf(m)), m, k - 1)

\* the largest q in lo..(hi - 1) with den * q <= num, given den * lo <= num
\* and num < den * hi
RECURSIVE BigQuot(_, _, _, _)
BigQuot(num, den, lo, hi) ==
  IF hi - lo <= 1 THEN lo
  ELSE LET mid == (lo + hi) \div 2
       IN  IF BigGeq(num, BigMul(den, mid, 0)) THEN BigQuot(num, den, mid, hi)
           ELSE BigQuot(num, den, lo, mid)

(***************************************************************************)
(* Margins of the float arithmetic.  A float has a 24-bit significand; the *)
(* margins below leave a factor of 2^8 and more for the accumulated        *)
(* rounding of the code's sums, quotients and square roots.                *)
(***************************************************************************)
\* relative margin of a comparison of two float expressions
FloatBits == 2 ^ 14

\* the integers the comparisons are carried out on stay below Range
Range == 2 ^ 15

\* the coordinates of a sample stay within CoordCap
CoordCap == 2 ^ 7

\* scale of the projector of a plane given by its projector
ProjScale == 2 ^ 16

\* relative margin of the comparisons made with a projector
ProjSlack == 2 ^ 12

(***************************************************************************)
(* get_inliers (lines 464-493).  The result holds the returned count, the  *)
(* mask written to `inliers` and the number of points the scan evaluated.  *)
(* The tests a rounding decides come out as the set `up` says: the points  *)
(* of `up` are counted, the others are not.                                *)
(***************************************************************************)
\* v^T B v for the symmetric matrix B = <<b11, b12, b13, b22, b23, b33>>
Quad(B, v) ==
  B[1] * v[1] * v[1] + B[4] * v[2] * v[2] + B[6] * v[3] * v[3]
    + 2 * (B[2] * v[1] * v[2] + B[3] * v[1] * v[3] + B[5] * v[2] * v[3])

\* the projector entries of a plane given by its projector
ProjectorOf(model) == SubSeq(model, 5, 10)

\* line 477 for a plane given by its projector: with w = n p - s, the
\* distance of p is |v . w| / n, and (v . w)^2 = w^T (v v^T) w
ProjectedTest(model, p, thr) ==
  LET n   == model[1]
      w   == <<n * p[1] - model[2], n * p[2] - model[3], n * p[3] - model[4]>>
      w2  == Dot3(w, w)
      t2  == thr * thr * n * n
  IN  IF L1(p) >= Range \/ n * thr >= Range \/ L1(w) >= Range THEN "rounding"
      ELSE IF w2 + t2 >= 2 ^ 13 \/ model[11] > 2 ^ 10 THEN "rounding"
      ELSE LET v == Quad(ProjectorOf(model), w)
               margin == model[11] * L1(w) * L1(w) + (ProjScale * (w2 + t2)) \div ProjSlack
           IN  IF v + margin < ProjScale * t2 THEN "inlier"
               ELSE IF v - margin > ProjScale * t2 THEN "outlier"
               ELSE "rounding"

\* fabs(a x + b y + c z + d) < thr after the division by hom (lines 467-468,
\* 477).  A comparison with a NaN (d is a NaN, or hom = 0 and the division
\* gives 0/0) is false.  With (a, b, c) a unit axis vector the code's
\* arithmetic is exact; otherwise the test is decided when the two sides
\* differ by more than the margin.
InlierTest(model, p, thr) ==
  IF IsAny(model) THEN "rounding"
  ELSE IF IsProjected(model) THEN ProjectedTest(model, p, thr)
  ELSE IF HasNaN(model) \/ SqrNorm(model) = 0 THEN "outlier"
  ELSE IF L1(model) >= Range \/ L1(p) >= Range \/ Abs(model[4]) >= Range THEN "rounding"
  ELSE LET reach == L1(model) * (L1(p) + 1) + Abs(model[4])
           r  == Abs(Residual(model, p))
       IN  IF reach >= Range \/ L1(model) * thr >= Range THEN "rounding"
           ELSE LET r2 == r * r
                    t2 == thr * thr * SqrNorm(model)
                    margin == ((r + thr * L1(model)) * reach) \div FloatBits
                IN  IF SqrNorm(model) = 1 THEN (IF r2 < t2 THEN "inlier" ELSE "outlier")
                    ELSE IF Abs(r2 - t2) <= margin THEN "rounding"
                    ELSE IF r2 < t2 THEN "inlier"
                    ELSE "outlier"

\* the geometric statement the properties use: the point is closer than thr
\* to the plane
IsInlier(model, p, thr) == InlierTest(model, p, thr) = "inlier"

\* the point is at distance thr or more from the plane, or the plane has a
\* NaN
IsOutlier(model, p, thr) == InlierTest(model, p, thr) = "outlier"

\* a break that compares the running count alone with the bound
PruneStopIgnoringRest(num_inliers, pts_size, q, best_inls) ==
  num_inliers < best_inls

\* the break of line 490, taken after point q (code index p = q - 1)
PruneStop(num_inliers, pts_size, q, best_inls) ==
  num_inliers + pts_size - (q - 1) < best_inls

\* the two loops of lines 475-491 from point q on: the first cut points are
\* always evaluated, the others until the break of line 490
RECURSIVE InlierScan(_, _, _, _, _, _, _, _)
InlierScan(model, input, thr, best_inls, up, q, num_inliers, mask) ==
  LET pts_size == Len(input)
      cut      == (pts_size * 2) \div 3
  IN  IF q > pts_size
      THEN [cnt |-> num_inliers, mask |-> mask, seen |-> pts_size]
      ELSE LET test == InlierTest(model, input[q], thr)
               hit  == test = "inlier" \/ (test = "rounding" /\ q \in up)
               num2 == IF hit THEN num_inliers + 1 ELSE num_inliers
               m2   == IF hit THEN [mask EXCEPT ![q] = TRUE] ELSE mask
           IN  IF q > cut /\ PruneStop(num2, pts_size, q, best_inls)
               THEN [cnt |-> num2, mask |-> m2, seen |-> q]
               ELSE InlierScan(model, input, thr, best_inls, up, q + 1, num2, m2)

\* the value of best_inls when a call passes none (lines 178, 209, 592); the
\* declaration that sets it is in ransac.h
DefaultBestInls == 0

\* lines 464-493; the mask starts all false (line 472)
get_inliers(model, input, thr, best_inls, up) ==
  InlierScan(model, input, thr, best_inls, up, 1, 0, [q \in 1..Len(input) |-> FALSE])

\* the points of the set whose test a rounding decides
Ties(model, input, thr) ==
  {q \in 1..Len(input) : InlierTest(model, input[q], thr) = "rounding"}

\* a call with the outcomes `up`, the points `ties` being open: up keeps
\* the outcomes of the tests the scan evaluated, and exact says that none
\* of them was open
ScoreWith(model, input, thr, best_inls, ties, up) ==
  LET sc == get_inliers(model, input, thr, best_inls, up)
  IN  [cnt |-> sc.cnt, mask |-> sc.mask, seen |-> sc.seen,
       up |-> up \cap (1..sc.seen), exact |-> ties \cap (1..sc.seen) = {}]

\* what a call of get_inliers can return: its result for every way the
\* open tests can come out
ScoreOutcomes(model, input, thr, best_inls) ==
  LET ties == Ties(model, input, thr)
  IN  {ScoreWith(model, input, thr, best_inls, ties, up) : up \in SUBSET ties}

\* the buffer `inliers` after a call on pts_size points: the call writes the
\* first pts_size entries (lines 472-491) and leaves the others as they are
WriteMask(buffer, mask) == mask \o SubSeq(buffer, Len(mask) + 1, Len(buffer))

\* the first n entries of the buffer
MaskOf(buffer, n) == SubSeq(buffer, 1, n)

\* the exhaustive inlier mask of a model with the open tests as up says
MaskWith(model, input, thr, up) ==
  [q \in 1..Len(input) |->
     \/ IsInlier(model, input[q], thr)
     \/ InlierTest(model, input[q], thr) = "rounding" /\ q \in up]

CountTrue(mask) == Cardinality({q \in 1..Len(mask) : mask[q]})

(***************************************************************************)
(* check_same_normal (lines 624-636).  The plane normal is v / sqrt(q):    *)
(* q = 1 is the vector v itself, q = |v|^2 the unit eigenvector the plane  *)
(* fit returns.  thr is the rational thr.num / thr.den.  The code's test   *)
(*   (dot^2 - |a|^2 |b|^2)^2 <= thr |a|^2 |b|^2                            *)
(* with a = v / sqrt(q) is, multiplied by q^2 thr.den,                     *)
(*   thr.den ((v.b)^2 - |v|^2 |b|^2)^2 <= thr.num |v|^2 |b|^2 q.           *)
(* The products of the code are float products (lines 625-630): they are   *)
(* exact while they stay below 2^12, and the double thr is the fraction    *)
(* itself when thr.den is a power of two.  The answer is "same" or         *)
(* "differs", or "rounding" when the two sides are closer than the margin. *)
(***************************************************************************)
check_same_normal(v, q, expect_normal, thr) ==
  IF L1(v) > 2 ^ 12 \/ L1(expect_normal) > 2 ^ 12 \/ q > 2 ^ 12 THEN "rounding"
  ELSE LET dot           == Dot3(v, expect_normal)
           sqr_modulu_a  == Dot3(v, v)
           sqr_modulu_b  == Dot3(expect_normal, expect_normal)
       IN  IF sqr_modulu_a > 2 ^ 12 \/ sqr_modulu_b > 2 ^ 12 THEN "rounding"
           ELSE IF sqr_modulu_a * sqr_modulu_b > 2 ^ 12 THEN "rounding"
           ELSE IF q # 1 /\ q * sqr_modulu_b > 2 ^ 12 THEN "rounding"
           ELSE IF thr.num + thr.den > 2 ^ 7 THEN "rounding"
           ELSE IF (sqr_modulu_a * sqr_modulu_b) * (sqr_modulu_a * sqr_modulu_b)
                     > (2 ^ 30) \div thr.den THEN "rounding"
           ELSE LET cos_sqr       == dot * dot
                    sqr_modulu_ab == sqr_modulu_a * sqr_modulu_b
                    lhs == thr.den * (cos_sqr - sqr_modulu_ab) * (cos_sqr - sqr_modulu_ab)
                    rhs == thr.num * sqr_modulu_ab * q
                    margin == ((q * q) \div 64 + 1)
                                * ((sqr_modulu_b * (sqr_modulu_b * (thr.num + thr.den) + thr.den))
                                     \div 64 + 1)
                IN  IF q = 1
                    THEN IF lhs = rhs THEN (IF IsPow2(thr.den) THEN "same" ELSE "rounding")
                         ELSE IF lhs < rhs THEN "same" ELSE "differs"
                    ELSE IF Abs(lhs - rhs) <= margin THEN "rounding"
                    ELSE IF lhs < rhs THEN "same"
                    ELSE "differs"

\* the test on a plane given by its projector: for the unit normal v,
\* dot^2 = t^T (v v^T) t and |a|^2 = 1, so that the test is
\* (|t|^2 - dot^2)^2 <= thr |t|^2
ProjectedNormalTest(model, expect_normal, thr) ==
  IF L1(expect_normal) > 2 ^ 5 \/ model[11] > 2 ^ 10 \/ thr.num + thr.den > 2 ^ 7
  THEN "rounding"
  ELSE LET sqr_modulu_b == Dot3(expect_normal, expect_normal)
           x      == ProjScale * sqr_modulu_b - Quad(ProjectorOf(model), expect_normal)
           margin == model[11] * L1(expect_normal) * L1(expect_normal)
                       + (ProjScale * sqr_modulu_b) \div ProjSlack + 1
           xlo    == Max2(x - margin, 0)
           xhi    == x + margin
           rhs    == BigTimes(BigOf(thr.num * sqr_modulu_b), <<ProjScale, ProjScale>>)
           lhs_hi == BigMul(BigProd(BigOf(xhi), BigOf(xhi)), thr.den, 0)
           lhs_lo == BigMul(BigProd(BigOf(xlo), BigOf(xlo)), thr.den, 0)
       IN  IF BigGreater(rhs, lhs_hi) THEN "same"
           ELSE IF BigGreater(lhs_lo, rhs) THEN "differs"
           ELSE "rounding"

\* the test applied to a fitted model, whose normal is a unit eigenvector;
\* the test reads a, b and c only (lines 625-630), so that a plane whose d
\* is a NaN is tested on its normal
ModelPassesNormal(model, expect_normal, thr) ==
  IF IsAny(model) THEN "rounding"
  ELSE IF IsProjected(model) THEN ProjectedNormalTest(model, expect_normal, thr)
  ELSE check_same_normal(<<model[1], model[2], model[3]>>, SqrNorm(model), expect_normal, thr)

(***************************************************************************)
(* total_least_squares_plane_estimate (lines 394-450).  The code centres   *)
(* the sample on its mean, forms the covariance UT * U and takes the       *)
(* eigenvector of the least eigenvalue (cv::eigen sorts the eigenvalues in *)
(* descending order, row 2 of the eigenvectors is the last).  With n       *)
(* points of sum s the integer matrix M = n * sum(p p^T) - s s^T is n      *)
(* times the covariance and has the same eigenvectors.  Its least          *)
(* eigenvalue is the least root of the characteristic polynomial           *)
(*   chi(x) = det M - tr(adj M) x + tr(M) x^2 - x^3,                       *)
(* and for a simple root x the matrix adj(M - x I), divided by its trace,  *)
(* is the projector v v^T on the eigenvector.                              *)
(***************************************************************************)
\* the collinearity test of lines 398-409 on integer coordinates: the
\* products are exact in float while the squared lengths stay below 2^12,
\* and then |(ca.ba)^2 - (ba.ba)(ca.ca)| < 0.0001 iff the integer is 0
ThreePointsCollinear(p1, p2, p3) ==
  IF L1(p1) >= Range \/ L1(p2) >= Range \/ L1(p3) >= Range THEN "rounding"
  ELSE LET ba == Sub3(p1, p2)
           ca == Sub3(p1, p3)
           ba_dot_ca == Abs(Dot3(ca, ba))
       IN  IF L1(ba) >= 2 ^ 12 \/ L1(ca) >= 2 ^ 12 THEN "rounding"
           ELSE IF Dot3(ba, ba) >= 2 ^ 12 \/ Dot3(ca, ca) >= 2 ^ 12 THEN "rounding"
           ELSE IF Abs(ba_dot_ca * ba_dot_ca - Dot3(ba, ba) * Dot3(ca, ca)) = 0
           THEN "collinear"
           ELSE "spans"

\* the points of a sample, in sample order (lines 412-414, 423-427)
SamplePoints(input, sample) == [i \in 1..Len(sample) |-> input[sample[i]]]

\* the sample has at most max_lo_inliers points with coordinates within
\* CoordCap
SampleInRange(P) ==
  /\ Len(P) <= max_lo_inliers
  /\ \A i \in 1..Len(P) : \A j \in 1..3 : Abs(P[i][j]) <= CoordCap

\* the points of the sample have the same coordinate j
SharesCoordinate(P, j) == \A i \in 1..Len(P) : P[i][j] = P[1][j]

\* sum of coordinate j over the first k points (lines 410-416)
RECURSIVE SumCoord(_, _, _)
SumCoord(P, j, k) == IF k = 0 THEN 0 ELSE P[k][j] + SumCoord(P, j, k - 1)

\* sum of the products of coordinates i and j over the first k points
RECURSIVE SumProd(_, _, _, _)
SumProd(P, i, j, k) == IF k = 0 THEN 0 ELSE P[k][i] * P[k][j] + SumProd(P, i, j, k - 1)

SampleSum(P) == [j \in 1..3 |-> SumCoord(P, j, Len(P))]

\* n times the covariance UT * U of lines 419-434
Scatter(P) ==
  LET n == Len(P)
      s == SampleSum(P)
  IN  [i \in 1..3 |-> [j \in 1..3 |-> n * SumProd(P, i, j, n) - s[i] * s[j]]]

Trace3(M) == M[1][1] + M[2][2] + M[3][3]

Det3(M) ==
  M[1][1] * (M[2][2] * M[3][3] - M[2][3] * M[3][2])
    - M[1][2] * (M[2][1] * M[3][3] - M[2][3] * M[3][1])
    + M[1][3] * (M[2][1] * M[3][2] - M[2][2] * M[3][1])

\* the adjugate of a symmetric matrix
Adj3(M) ==
  LET a11 == M[2][2] * M[3][3] - M[2][3] * M[3][2]
      a22 == M[1][1] * M[3][3] - M[1][3] * M[3][1]
      a33 == M[1][1] * M[2][2] - M[1][2] * M[2][1]
      a12 == -(M[1][2] * M[3][3] - M[1][3] * M[3][2])
      a13 == M[1][2] * M[2][3] - M[1][3] * M[2][2]
      a23 == -(M[1][1] * M[2][3] - M[1][3] * M[1][2])
  IN  << <<a11, a12, a13>>, <<a12, a22, a23>>, <<a13, a23, a33>> >>

\* the traces the fit is carried out on
TraceCap == 3 * 2 ^ 10

\* the eigenvalue is located in steps of 1 / GridOf(tr): the largest power
\* of two, at most 2^17, with tr * q below 3 * 2^17
RECURSIVE GridFrom(_, _)
GridFrom(tr, q) == IF tr * q * 2 < 3 * 2 ^ 17 /\ q < 2 ^ 17 THEN GridFrom(tr, q * 2) ELSE q

GridOf(tr) == GridFrom(tr, 1)

\* the sign of chi(a / q), from q^3 chi(a / q) =
\*   c0 q^3 + tr a^2 q - (c1 a q^2 + a^3)
ChiSign(c0, c1, tr, q, a) ==
  LET pos == BigAdd(BigTimes(BigOf(c0), <<q, q, q>>), BigTimes(BigOf(tr), <<a, a, q>>), 0)
      neg == BigAdd(BigTimes(BigOf(c1), <<a, q, q>>), BigTimes(BigOf(a), <<a, a>>), 0)
  IN  IF BigGreater(pos, neg) THEN 1 ELSE IF BigGreater(neg, pos) THEN -1 ELSE 0

\* the first multiple i of the step ga with chi(i ga) <= 0, or 0 when there
\* is none below top
RECURSIVE CoarseScan(_, _, _, _, _, _, _)
CoarseScan(c0, c1, tr, q, ga, top, i) ==
  IF ~(i * ga + ga < top) THEN 0
  ELSE IF ChiSign(c0, c1, tr, q, i * ga) > 0 THEN CoarseScan(c0, c1, tr, q, ga, top, i + 1)
  ELSE i

\* chi(lo) > 0 >= chi(hi): halve until hi = lo + 1
RECURSIVE Bisect(_, _, _, _, _, _)
Bisect(c0, c1, tr, q, lo, hi) ==
  IF hi - lo <= 1 THEN <<lo, hi>>
  ELSE LET mid == (lo + hi) \div 2
       IN  IF ChiSign(c0, c1, tr, q, mid) > 0 THEN Bisect(c0, c1, tr, q, mid, hi)
           ELSE Bisect(c0, c1, tr, q, lo, mid)

\* the least eigenvalue lies in (lo, hi] / q (lo = hi = 0 for a singular
\* matrix) and the next one beyond (hi + ga) / q, ga being 1/64 of the trace:
\* the eigenvector of the least eigenvalue is then well separated from the
\* others, and the code's iteration finds it
Isolate(c0, c1, tr, q) ==
  LET ga  == (tr * q + 63) \div 64
      top == (tr * q) \div 3
      i   == CoarseScan(c0, c1, tr, q, ga, top, 1)
      br  == IF c0 = 0 THEN <<0, 0>>
             ELSE IF i = 0 THEN <<0, top>>
             ELSE Bisect(c0, c1, tr, q, (i - 1) * ga, i * ga)
  IN  [ok |-> /\ (c0 # 0 => i # 0)
              /\ br[2] + ga < top
              /\ ChiSign(c0, c1, tr, q, br[2] + ga) < 0,
       flat |-> c0 = 0, lo |-> br[1], hi |-> br[2]]

\* entry (i, j) of q^2 adj(M - (a / q) I) =
\*   adj(M) q^2 + a q (M - tr I) + a^2 I,
\* as the sum of its positive terms and the sum of its negative terms
AdjEntry(M, ad, tr, q, a, i, j) ==
  LET lin == M[i][j] - (IF i = j THEN tr ELSE 0)
      t1  == BigTimes(BigOf(Abs(ad[i][j])), <<q, q>>)
      t2  == BigTimes(BigOf(Abs(lin)), <<a, q>>)
      t3  == IF i = j THEN BigTimes(BigOf(a), <<a>>) ELSE <<>>
  IN  [pos |-> BigAdd(BigAdd(IF ad[i][j] >= 0 THEN t1 ELSE <<>>,
                             IF lin >= 0 THEN t2 ELSE <<>>, 0), t3, 0),
       neg |-> BigAdd(IF ad[i][j] < 0 THEN t1 ELSE <<>>,
                      IF lin < 0 THEN t2 ELSE <<>>, 0)]

\* the trace of that matrix, from its three diagonal entries
AdjTrace(d1, d2, d3) ==
  BigSub(BigAdd(BigAdd(d1.pos, d2.pos, 0), d3.pos, 0),
         BigAdd(BigAdd(d1.neg, d2.neg, 0), d3.neg, 0), 0)

\* mag / t in units of 1 / ProjScale, rounded to the nearest
ProjQuot(mag, t) ==
  BigQuot(BigAdd(BigMul(mag, 2 * ProjScale, 0), t, 0), BigMul(t, 2, 0), 0, 2 * ProjScale + 2)

\* an entry en of the matrix above divided by its trace t, in units of
\* 1 / ProjScale
ProjEntry(en, t) ==
  IF BigGreater(en.neg, en.pos) THEN -ProjQuot(BigSub(en.neg, en.pos, 0), t)
  ELSE ProjQuot(BigSub(en.pos, en.neg, 0), t)

\* the six entries <<b11, b12, b13, b22, b23, b33>> of the matrix divided by
\* its trace t
ProjectorOver(M, ad, tr, q, a, t) ==
  [k \in 1..6 |->
     ProjEntry(AdjEntry(M, ad, tr, q, a, <<1, 1, 1, 2, 2, 3>>[k], <<1, 2, 3, 2, 3, 3>>[k]), t)]

\* the projector on the eigenvector of the eigenvalue next to a / q
Projector(M, ad, tr, q, a) ==
  ProjectorOver(M, ad, tr, q, a,
                AdjTrace(AdjEntry(M, ad, tr, q, a, 1, 1), AdjEntry(M, ad, tr, q, a, 2, 2),
                         AdjEntry(M, ad, tr, q, a, 3, 3)))

\* the plane of a sample whose points lie in one plane (det M = 0, the least
\* eigenvalue is 0 and simple): its normal is orthogonal to the rows of M
FlatPlane(M, n, s) ==
  LET c12 == Cross3(M[1], M[2])
      c13 == Cross3(M[1], M[3])
      c23 == Cross3(M[2], M[3])
      v   == IF c12 # <<0, 0, 0>> THEN c12 ELSE IF c13 # <<0, 0, 0>> THEN c13 ELSE c23
      u   == Canon(<<v[1], v[2], v[3], 0>>)
  IN  Canon(<<n * u[1], n * u[2], n * u[3], -(u[1] * s[1] + u[2] * s[2] + u[3] * s[3])>>)

\* a rounding decides the plane the fit writes
Undecided == [ok |-> TRUE, exact |-> FALSE, model |-> AnyModel]

\* a rounding made the test of lines 398-409 return false
UndecidedFailure == [ok |-> FALSE, exact |-> FALSE, model |-> AnyModel]

\* the fit wrote the plane and returned true
Fitted(model) == [ok |-> TRUE, exact |-> TRUE, model |-> model]

\* the plane of n points with sum s whose normal lies between the
\* projectors bl and bu
ProjectedPlane(n, s, bl, bu) ==
  Fitted(<<n, s[1], s[2], s[3], bl[1], bl[2], bl[3], bl[4], bl[5], bl[6],
           2 * MaxSeq([k \in 1..6 |-> Abs(bl[k] - bu[k])]) + 2>>)

\* the plane once the least eigenvalue is isolated
FitIsolated(n, s, M, ad, tr, q, iso) ==
  IF ~iso.ok THEN Undecided
  ELSE IF iso.flat THEN Fitted(FlatPlane(M, n, s))
  ELSE ProjectedPlane(n, s, Projector(M, ad, tr, q, iso.lo), Projector(M, ad, tr, q, iso.hi))

\* the plane of the scatter matrix M with adjugate ad and trace tr
FitSpectrum(n, s, M, ad, tr, q) ==
  IF tr > TraceCap THEN Undecided
  ELSE FitIsolated(n, s, M, ad, tr, q, Isolate(Det3(M), Trace3(ad), tr, q))

\* the plane of n points with sum s and scatter matrix M
FitScatter(n, s, M) == FitSpectrum(n, s, M, Adj3(M), Trace3(M), GridOf(Trace3(M)))

\* lines 410-448 for a sample that is not on an axis-parallel line or in one
\* point
EigenFit(P) == FitScatter(Len(P), SampleSum(P), Scatter(P))

\* lines 394-450.  ok is the returned bool; the fit is exact, and model is
\* the plane written, unless a rounding decides the collinearity test or the
\* two least eigenvalues are too close to tell their eigenvectors apart
total_least_squares_plane_estimate(input, sample) ==
  LET P == SamplePoints(input, sample)
      line == IF Len(sample) = 3 THEN ThreePointsCollinear(P[1], P[2], P[3]) ELSE "spans"
  IN  IF ~SampleInRange(P) \/ line = "rounding" THEN Undecided
      ELSE IF line = "collinear" THEN [ok |-> FALSE, exact |-> TRUE, model |-> AnyModel]
      ELSE IF Len(sample) = 0 THEN Fitted(NaNModel)
      ELSE IF SharesCoordinate(P, 1) /\ SharesCoordinate(P, 2) /\ SharesCoordinate(P, 3)
      THEN Fitted(<<0, 0, 1, -P[1][3]>>)
      ELSE IF SharesCoordinate(P, 1) /\ SharesCoordinate(P, 2)
      THEN Fitted(<<1, 0, 0, -P[1][1]>>)
      ELSE IF SharesCoordinate(P, 3) /\ (SharesCoordinate(P, 1) \/ SharesCoordinate(P, 2))
      THEN Fitted(<<0, 0, 1, -P[1][3]>>)
      ELSE EigenFit(P)

\* what a call of the fit can return: the fit itself, or, where a rounding
\* decides, a plane of which nothing is known, and a failure as well when
\* the rounding is that of the test of three points
FitOutcomes(input, sample) ==
  LET fit == total_least_squares_plane_estimate(input, sample)
      P == SamplePoints(input, sample)
  IN  IF fit.exact THEN {fit}
      ELSE IF Len(sample) = 3 /\ ThreePointsCollinear(P[1], P[2], P[3]) # "spans"
      THEN {Undecided, UndecidedFailure}
      ELSE {Undecided}

\* the planes of the minimal samples of a cloud (lines 532-534): every
\* triple of indices the generator can draw whose fit succeeds
SamplePlanes(input) ==
  LET n == Len(input)
      triples == {t \in (1..n) \X (1..n) \X (1..n) : t[1] < t[2] /\ t[2] < t[3]}
      fits == {total_least_squares_plane_estimate(input, t) : t \in triples}
  IN  {f.model : f \in {g \in fits : g.ok /\ g.exact}}

(***************************************************************************)
(* Randomness.  cv::RNG (the local generator of get_plane, line 525) and   *)
(* cv::theRNG() (the generator cv::randShuffle draws from, lines 181 and   *)
(* 550) are OpenCV's multiply-with-carry generator: a 64-bit state, and    *)
(*   state = (unsigned)state * 4164903690 + (unsigned)(state >> 32),       *)
(* whose output is the low 32 bits.  The state is a sequence of eight      *)
(* bytes, least significant first.                                         *)
(***************************************************************************)
\* the state of a default-constructed generator: 0xffffffff
RngDefaultState == <<255, 255, 255, 255, 0, 0, 0, 0>>

\* the multiplier 4164903690 = 0xF83F630A, least significant byte first
RngCoeff == <<10, 99, 63, 248>>

\* byte k (from 0) of (unsigned)state * RngCoeff + (state >> 32), before
\* the carries
RngColumn(st, k) ==
  SumSeq([i \in 1..4 |->
            IF k + 2 - i >= 1 /\ k + 2 - i <= 4 THEN st[i] * RngCoeff[k + 2 - i] ELSE 0])
    + (IF k < 4 THEN st[k + 5] ELSE 0)

\* the carries from byte k on
RECURSIVE RngCarry(_, _, _)
RngCarry(st, k, carry) ==
  IF k > 7 THEN <<>>
  ELSE LET v == RngColumn(st, k) + carry
       IN  <<v % 256>> \o RngCarry(st, k + 1, v \div 256)

\* RNG::next(): the new state
RngNext(st) == RngCarry(st, 0, 0)

\* (unsigned)state % n
RngLow32Mod(st, n) ==
  LET r4 == st[4] % n
      r3 == (r4 * 256 + st[3]) % n
      r2 == (r3 * 256 + st[2]) % n
  IN  (r2 * 256 + st[1]) % n

\* rng.uniform(0, n) (line 532) and (unsigned)rng % n of cv::randShuffle:
\* the next output modulo n
RngUniform(st, n) == [val |-> RngLow32Mod(RngNext(st), n), st |-> RngNext(st)]

\* the three draws of line 532 as code indices + 1
RECURSIVE DrawSample(_, _, _)
DrawSample(st, n, count) ==
  IF count = 0 THEN [sample |-> <<>>, st |-> st]
  ELSE LET u    == RngUniform(st, n)
           rest == DrawSample(u.st, n, count - 1)
       IN  [sample |-> <<u.val + 1>> \o rest.sample, st |-> rest.st]

\* the state of a generator after j draws from the default state
RECURSIVE RngAfter(_)
RngAfter(j) == IF j = 0 THEN RngDefaultState ELSE RngNext(RngAfter(j - 1))

\* the loop of cv::randShuffle: for i = 0..sz-1, swap arr[i] with
\* arr[rng % sz].  ok is false for an array without elements, which the
\* loop is never run on
RECURSIVE ShuffleFrom(_, _, _)
ShuffleFrom(arr, st, i) ==
  IF i > Len(arr) THEN [ok |-> Len(arr) > 0, arr |-> arr, st |-> st]
  ELSE LET u == RngUniform(st, Len(arr))
           j == u.val + 1
       IN  ShuffleFrom([arr EXCEPT ![i] = arr[j], ![j] = arr[i]], u.st, i + 1)

\* cv::randShuffle (lines 181, 550).  An empty std::vector is an empty Mat
\* of element size 0, for which the function has no shuffle routine: its
\* CV_Assert throws (ok is false) and neither the array nor the generator
\* is touched
randShuffle(arr, st) ==
  IF Len(arr) = 0 THEN [ok |-> FALSE, arr |-> arr, st |-> st]
  ELSE ShuffleFrom(arr, st, 1)

\* lines 182-189 and 553-560: the first up to max_inl indices of the pool,
\* in pool order, whose mask entry is set
RECURSIVE CollectFrom(_, _, _, _, _)
CollectFrom(pool, mask, max_inl, i, acc) ==
  IF i > Len(pool) THEN acc
  ELSE IF mask[pool[i]]
       THEN IF Len(acc) + 1 >= max_inl THEN Append(acc, pool[i])
            ELSE CollectFrom(pool, mask, max_inl, i + 1, Append(acc, pool[i]))
       ELSE CollectFrom(pool, mask, max_inl, i + 1, acc)

CollectInlierSample(pool, mask, max_inl) == CollectFrom(pool, mask, max_inl, 1, <<>>)

(***************************************************************************)
(* The adaptive iteration cap of lines 579-585.                            *)
(*   max_hyp = 3 ln(0.05) / ln(1 - (best_inls/pts_size)^3),                *)
(* so k <= max_hyp iff (1 - (best_inls/pts_size)^3)^k >= 0.05^3 = 1/8000,  *)
(* that is 8000 (pts_size^3 - best_inls^3)^k >= (pts_size^3)^k.  The two   *)
(* sides are computed exactly.  best_inls = pts_size gives max_hyp = 0.    *)
(***************************************************************************)
\* k <= max_hyp
WithinMaxHyp(k, best_inls, pts_size) ==
  LET n3 == pts_size * pts_size * pts_size
      b3 == best_inls * best_inls * best_inls
  IN  BigGeq(BigScalePow(<<8000>>, n3 - b3, k), BigScalePow(<<1>>, n3, k))

\* an update that takes max_hyp also when it is above the budget
ShrunkIterationsUnguarded(max_it, best_inls, pts_size) ==
  IF WithinMaxHyp(max_it + 1, best_inls, pts_size) THEN max_it + 1
  ELSE CHOOSE k \in 0..max_it :
         /\ WithinMaxHyp(k, best_inls, pts_size)
         /\ \A k2 \in 0..max_it : WithinMaxHyp(k2, best_inls, pts_size) => k2 <= k

\* lines 582-585: the budget after the update
ShrunkIterations(max_it, best_inls, pts_size) ==
  IF WithinMaxHyp(max_it, best_inls, pts_size) THEN max_it
  ELSE CHOOSE k \in 0..max_it :
         /\ WithinMaxHyp(k, best_inls, pts_size)
         /\ \A k2 \in 0..max_it : WithinMaxHyp(k2, best_inls, pts_size) => k2 <= k

(***************************************************************************)
(* The ranked list and the compaction of get_planes.                       *)
(***************************************************************************)
\* line 212: while (best_inls < plane_inls_num[e]) ++e, as a 1-based position
RECURSIVE ScanRank(_, _, _)
ScanRank(counts, best_inls, e) ==
  IF e <= Len(counts) /\ best_inls < counts[e] THEN ScanRank(counts, best_inls, e + 1)
  ELSE e

\* a list kept in discovery order: every plane goes right before the sentinel
InsertPositionAtEnd(counts, best_inls) == Len(counts)

InsertPosition(counts, best_inls) == ScanRank(counts, best_inls, 1)

\* vector::insert(begin() + e, x) (lines 213, 215) with e the 1-based position
InsertAt(s, e, x) == SubSeq(s, 1, e - 1) \o <<x>> \o SubSeq(s, e, Len(s))

\* the entries of s whose mask entry equals keep, in order (lines 122-131, 238-250)
RECURSIVE Compact(_, _, _, _)
Compact(s, mask, keep, i) ==
  IF i > Len(s) THEN <<>>
  ELSE IF mask[i] = keep THEN <<s[i]>> \o Compact(s, mask, keep, i + 1)
       ELSE Compact(s, mask, keep, i + 1)

\* lines 227-230 and 248: labels[orig_pts_idx[p]] = plane_num for the inliers
WriteLabels(lab, idx, mask, plane_no) ==
  [i \in 1..Len(lab) |->
     IF \E p \in 1..Len(mask) : mask[p] /\ idx[p] = i THEN plane_no ELSE lab[i]]

(***************************************************************************)
(* VoxelGrid (lines 278-380).  The cells are the keys of a                 *)
(* std::unordered_map<std::string, ...> (line 304) and the output holds    *)
(* one point per cell in the iteration order of the map (line 330), which  *)
(* is the order of the node list of the hash table: std::hash of the key   *)
(* (the 64-bit murmur hash of its bytes, seed 0xc70f6907), the bucket      *)
(* count policy and the insertion at the head of a bucket decide it.  A    *)
(* 64-bit value is a sequence of eight bytes, least significant first.     *)
(***************************************************************************)
\* the multiplier 0xc6a4a7935bd1e995 of the hash
HashMul == <<149, 233, 209, 91, 147, 167, 164, 198>>

\* the seed 0xc70f6907 of std::hash
HashSeed == <<7, 105, 15, 199, 0, 0, 0, 0>>

\* the bitwise exclusive or of two bytes
RECURSIVE ByteXor(_, _)
ByteXor(a, b) ==
  IF a = 0 THEN b ELSE IF b = 0 THEN a
  ELSE ((a + b) % 2) + 2 * ByteXor(a \div 2, b \div 2)

U64Xor(x, y) == [i \in 1..8 |-> ByteXor(x[i], y[i])]

\* byte k (from 0) of x * y before the carries
U64Column(x, y, k) == SumSeq([i \in 1..(k + 1) |-> x[i] * y[k + 2 - i]])

RECURSIVE U64Carry(_, _, _, _)
U64Carry(x, y, k, carry) ==
  IF k > 7 THEN <<>>
  ELSE LET v == U64Column(x, y, k) + carry
       IN  <<v % 256>> \o U64Carry(x, y, k + 1, v \div 256)

\* x * y modulo 2^64
U64Mul(x, y) == U64Carry(x, y, 0, 0)

\* x >> 47
U64Shr47(x) ==
  LET v == (x[6] + 256 * x[7] + 65536 * x[8]) \div 128
  IN  <<v % 256, (v \div 256) % 256, v \div 65536, 0, 0, 0, 0, 0>>

\* shift_mix of the hash: v ^ (v >> 47)
ShiftMix(x) == U64Xor(x, U64Shr47(x))

\* x modulo a small n
RECURSIVE U64ModFrom(_, _, _, _)
U64ModFrom(x, n, i, r) == IF i = 0 THEN r ELSE U64ModFrom(x, n, i - 1, (r * 256 + x[i]) % n)

U64Mod(x, n) == U64ModFrom(x, n, 8, 0)

\* the bytes of a block, padded with zeros to eight
PadBlock(bytes) == [i \in 1..8 |-> IF i <= Len(bytes) THEN bytes[i] ELSE 0]

\* the loop of the hash over the full blocks of eight bytes from byte i
RECURSIVE HashBlocks(_, _, _)
HashBlocks(bytes, i, h) ==
  IF i + 7 > Len(bytes) THEN h
  ELSE LET data == U64Mul(ShiftMix(U64Mul(PadBlock(SubSeq(bytes, i, i + 7)), HashMul)), HashMul)
       IN  HashBlocks(bytes, i + 8, U64Mul(U64Xor(h, data), HashMul))

\* std::hash<std::string> of a key
HashBytes(bytes) ==
  LET n    == Len(bytes)
      full == 8 * (n \div 8)
      h0   == U64Xor(HashSeed, U64Mul(PadBlock(<<n>>), HashMul))
      h1   == HashBlocks(bytes, 1, h0)
      h2   == IF n % 8 # 0
              THEN U64Mul(U64Xor(h1, PadBlock(SubSeq(bytes, full + 1, n))), HashMul)
              ELSE h1
  IN  ShiftMix(U64Mul(ShiftMix(h2), HashMul))

\* the characters of a natural number in decimal, as byte codes
RECURSIVE DecimalBytes(_)
DecimalBytes(n) ==
  IF n < 10 THEN <<48 + n>> ELSE DecimalBytes(n \div 10) \o <<48 + (n % 10)>>

\* sprintf(buff, "%d,%d,%d", hx, hy, hz) (line 315)
CellKey(cell) ==
  DecimalBytes(cell[1]) \o <<44>> \o DecimalBytes(cell[2]) \o <<44>> \o DecimalBytes(cell[3])

\* the bucket counts of the table for small requests, and the primes it
\* takes beyond
FastBuckets == <<2, 2, 2, 3, 5, 5, 7, 7, 11, 11, 11, 11, 13, 13>>

BucketPrimes == <<2, 3, 5, 7, 11, 13, 17, 19, 23, 29, 31, 37, 41, 43, 47, 53, 59, 61, 67, 71,
                  73, 79, 83, 89, 97, 103, 109, 113, 127, 137, 139, 149, 157, 167, 179, 193,
                  199, 211, 227, 241, 257, 277, 293, 313>>

RECURSIVE FirstPrimeFrom(_, _)
FirstPrimeFrom(n, i) == IF BucketPrimes[i] >= n THEN BucketPrimes[i] ELSE FirstPrimeFrom(n, i + 1)

\* the bucket count for a request of n buckets, and the element count at
\* which the table grows next
NextBuckets(table, n) ==
  IF n = 0 THEN [bkt |-> 1, next_resize |-> table.next_resize]
  ELSE IF n < Len(FastBuckets)
  THEN [bkt |-> FastBuckets[n + 1], next_resize |-> FastBuckets[n + 1]]
  ELSE [bkt |-> FirstPrimeFrom(n, 1), next_resize |-> FirstPrimeFrom(n, 1)]

\* a node enters the list before the first node of its bucket, or at the
\* front when its bucket is empty
RECURSIVE PlaceNode(_, _, _, _)
PlaceNode(order, node, bkt, i) ==
  IF i > Len(order) THEN <<node>> \o order
  ELSE IF U64Mod(order[i].hash, bkt) = U64Mod(node.hash, bkt)
  THEN SubSeq(order, 1, i - 1) \o <<node>> \o SubSeq(order, i, Len(order))
  ELSE PlaceNode(order, node, bkt, i + 1)

\* a rehash takes the nodes in list order into the new buckets
RECURSIVE Relink(_, _, _, _)
Relink(old, bkt, i, order) ==
  IF i > Len(old) THEN order
  ELSE Relink(old, bkt, i + 1, PlaceNode(order, old[i], bkt, 1))

\* the empty map, one bucket
EmptyTable == [bkt |-> 1, next_resize |-> 0, order |-> <<>>]

\* grids.reserve(n) (line 307)
TableReserve(table, n) ==
  LET nb == NextBuckets(table, Max2(Len(table.order) + 1, n))
  IN  IF nb.bkt # table.bkt
      THEN [bkt |-> nb.bkt, next_resize |-> nb.next_resize,
            order |-> Relink(table.order, nb.bkt, 1, <<>>)]
      ELSE [table EXCEPT !.next_resize = nb.next_resize]

\* grids[buff] for a key (lines 318-321): a new key may grow the table
\* first
TableInsert(table, cell) ==
  IF \E i \in 1..Len(table.order) : table.order[i].cell = cell THEN table
  ELSE LET node == [cell |-> cell, hash |-> HashBytes(CellKey(cell))]
           n_elt == Len(table.order)
           min_bkts == Max2(n_elt + 1, IF table.next_resize # 0 THEN 0 ELSE 11)
           nb == NextBuckets(table, Max2(min_bkts + 1, table.bkt * 2))
           grown == IF n_elt + 1 > table.next_resize
                    THEN IF min_bkts >= table.bkt
                         THEN [bkt |-> nb.bkt, next_resize |-> nb.next_resize,
                               order |-> Relink(table.order, nb.bkt, 1, <<>>)]
                         ELSE [table EXCEPT !.next_resize = table.bkt]
                    ELSE table
       IN  [grown EXCEPT !.order = PlaceNode(grown.order, node, grown.bkt, 1)]

\* the least coordinate j of the cloud (lines 283-302)
RECURSIVE MinCoord(_, _, _)
MinCoord(pts, j, k) ==
  IF k = 1 THEN pts[1][j]
  ELSE LET m == MinCoord(pts, j, k - 1) IN IF m > pts[k][j] THEN pts[k][j] ELSE m

\* lines 312-314: the cell of a point
CellOf(p, mins, length) ==
  <<(p[1] - mins[1]) \div length, (p[2] - mins[2]) \div length, (p[3] - mins[3]) \div length>>

\* lines 310-322: the map after the first k points
RECURSIVE FillTable(_, _, _, _)
FillTable(pts, mins, length, k) ==
  IF k = 0 THEN TableReserve(EmptyTable, (Len(pts) * 2) \div 100)
  ELSE TableInsert(FillTable(pts, mins, length, k - 1), CellOf(pts[k], mins, length))

\* the indices of the points of a cell, in input order (grid.second)
RECURSIVE CellMembers(_, _, _, _, _)
CellMembers(pts, mins, length, cell, k) ==
  IF k > Len(pts) THEN <<>>
  ELSE IF CellOf(pts[k], mins, length) = cell
  THEN <<k>> \o CellMembers(pts, mins, length, cell, k + 1)
  ELSE CellMembers(pts, mins, length, cell, k + 1)

\* the squared distance of member a to the centre of the cell, times the
\* square of the cell's size (lines 346-354)
CentreDist(pts, members, a) ==
  LET n == Len(members)
      P == [i \in 1..n |-> pts[members[i]]]
      s == [j \in 1..3 |-> SumSeq([i \in 1..n |-> P[i][j]])]
      w == <<n * P[a][1] - s[1], n * P[a][2] - s[2], n * P[a][3] - s[3]>>
  IN  Dot3(w, w)

\* lines 347-361: the first member that is nearest to the centre
RECURSIVE NearestFrom(_, _, _, _)
NearestFrom(pts, members, a, best) ==
  IF a > Len(members) THEN best
  ELSE NearestFrom(pts, members, a + 1,
                   IF CentreDist(pts, members, a) < CentreDist(pts, members, best)
                   THEN a ELSE best)

\* the centre of the cell is exact in float: the size of the cell is a
\* power of two, or divides the sums
CentreExact(pts, members) ==
  LET n == Len(members)
      s == [j \in 1..3 |-> SumSeq([i \in 1..n |-> pts[members[i]][j]])]
  IN  IsPow2(n) \/ \A j \in 1..3 : s[j] % n = 0

\* the members the comparisons of line 355 can pick: the first nearest
\* member, and every member whose distance a rounding can make the least
\* (equal distances from a centre that is not exact, or distances closer
\* than the margin)
NearestChoices(pts, members) ==
  LET n == Len(members)
      w == NearestFrom(pts, members, 1, 1)
      dw == CentreDist(pts, members, w)
  IN  {w} \cup
      {a \in 1..n :
         LET da == CentreDist(pts, members, a)
         IN  IF da = dw THEN ~CentreExact(pts, members)
             ELSE ~((da - dw) * FloatBits > da + dw)}

\* the comparisons of line 355 are decided
NearestDecided(pts, members) == NearestChoices(pts, members) = {NearestFrom(pts, members, 1, 1)}

\* the cells of the map in map order, each with the indices of its points
VoxelCells(pts, length) ==
  LET mins  == <<MinCoord(pts, 1, Len(pts)), MinCoord(pts, 2, Len(pts)),
                 MinCoord(pts, 3, Len(pts))>>
      table == FillTable(pts, mins, length, Len(pts))
  IN  [i \in 1..Len(table.order) |->
         CellMembers(pts, mins, length, table.order[i].cell, 1)]

\* lines 278-380: sampling_pts, one point per cell in map order
VoxelGrid(pts, length) ==
  LET cells == VoxelCells(pts, length)
  IN  [exact |-> \A i \in 1..Len(cells) : NearestDecided(pts, cells[i]),
       pts   |-> [i \in 1..Len(cells) |->
                    pts[cells[i][NearestFrom(pts, cells[i], 1, 1)]]]]

\* the point sets the cells from cell i on can give
RECURSIVE VoxelPicks(_, _, _)
VoxelPicks(pts, cells, i) ==
  IF i > Len(cells) THEN {<<>>}
  ELSE {<<pts[cells[i][a]]>> \o rest :
          a \in NearestChoices(pts, cells[i]), rest \in VoxelPicks(pts, cells, i + 1)}

\* what VoxelGrid can write to sampling_pts
VoxelOutcomes(pts, length) ==
  LET grid == VoxelGrid(pts, length)
  IN  IF grid.exact THEN {grid}
      ELSE {[exact |-> FALSE, pts |-> s] : s \in VoxelPicks(pts, VoxelCells(pts, length), 1)}

(***************************************************************************)
(* The point cloud handed to get_planes (lines 40-51): a                   *)
(* std::vector<cv::Point3f> or a cv::Mat of rows x cols elements of ch     *)
(* channels, its data row by row.                                          *)
(***************************************************************************)
\* x1, y1, z1, x2, y2, z2, ...
RECURSIVE Interleaved(_)
Interleaved(cloud) == IF cloud = <<>> THEN <<>> ELSE Head(cloud) \o Interleaved(Tail(cloud))

\* a std::vector<cv::Point3f>
AsVector(cloud) ==
  [vec |-> TRUE, rows |-> 1, cols |-> Len(cloud), ch |-> 3, data |-> Interleaved(cloud)]

\* an N x 3 matrix, one point per row
AsRows(cloud) ==
  [vec |-> FALSE, rows |-> Len(cloud), cols |-> 3, ch |-> 1, data |-> Interleaved(cloud)]

\* a 3 x N matrix, one point per column
AsColumns(cloud) ==
  [vec |-> FALSE, rows |-> 3, cols |-> Len(cloud), ch |-> 1,
   data |-> [k \in 1..(3 * Len(cloud)) |->
               cloud[((k - 1) % Len(cloud)) + 1][((k - 1) \div Len(cloud)) + 1]]]

\* an N x 1 matrix of three channels
AsChannels(cloud) ==
  [vec |-> FALSE, rows |-> Len(cloud), cols |-> 1, ch |-> 3, data |-> Interleaved(cloud)]

\* Mat::reshape(1, total) (line 45): one channel, total rows
Reshaped(m) ==
  IF m.ch # 1 THEN [m EXCEPT !.rows = m.rows * m.cols, !.cols = m.ch, !.ch = 1] ELSE m

\* cv::transpose (line 47) when there are fewer rows than columns
Transposed(m) ==
  IF m.rows < m.cols
  THEN [m EXCEPT !.rows = m.cols, !.cols = m.rows,
                 !.data = [k \in 1..(m.rows * m.cols) |->
                             m.data[((k - 1) % m.rows) * m.cols + ((k - 1) \div m.rows) + 1]]]
  ELSE m

\* lines 40-51: points3d_ as the sequence of its rows; ok is false when
\* CV_CheckEQ(points3d_.cols, 3) throws
InputPoints(points3d) ==
  LET m == IF points3d.vec
           THEN [points3d EXCEPT !.rows = points3d.rows * points3d.cols, !.cols = 3, !.ch = 1]
           ELSE Transposed(Reshaped(points3d))
  IN  [ok  |-> m.cols = 3,
       pts |-> IF m.cols = 3
               THEN [i \in 1..m.rows |-> <<m.data[3 * i - 2], m.data[3 * i - 1], m.data[3 * i]>>]
               ELSE <<>>]

(***************************************************************************)
(* The inputs of get_planes the model runs on.                             *)
(***************************************************************************)
\* two parallel planes of two and three points, one further point, and a
\* point on a line that meets both
CloudLayers == << <<0, 2, 2>>, <<1, 0, 1>>, <<1, 0, 2>>, <<1, 0, 0>>,
                  <<1, 1, 1>>, <<0, 0, 0>>, <<0, 1, 0>> >>

\* seven points of the cube 0..2 with two planes of equal support
CloudTies == << <<2, 0, 1>>, <<1, 1, 0>>, <<2, 2, 0>>, <<2, 1, 2>>,
                <<1, 2, 0>>, <<2, 2, 2>>, <<1, 0, 2>> >>

\* six scattered points
CloudScatter == << <<0, 2, 2>>, <<3, 2, 3>>, <<1, 3, 2>>, <<1, 0, 1>>,
                   <<2, 1, 2>>, <<1, 1, 2>> >>

\* eight points, the first of them on the first plane found
CloudEight == << <<2, 2, 0>>, <<2, 1, 3>>, <<3, 3, 3>>, <<0, 3, 3>>,
                 <<1, 2, 2>>, <<1, 3, 1>>, <<0, 3, 1>>, <<1, 2, 0>> >>

\* ten points: a refit of the local optimization counts fewer points than
\* the best plane and leaves its mask behind
CloudTen == << <<1, 2, 2>>, <<3, 2, 0>>, <<2, 2, 4>>, <<4, 4, 0>>, <<3, 2, 3>>,
               <<4, 1, 3>>, <<0, 0, 3>>, <<4, 3, 1>>, <<3, 0, 1>>, <<0, 1, 4>> >>

\* ten points: the mask a pruned refit leaves behind has no entry set
CloudSparse == << <<3, 0, 1>>, <<2, 0, 2>>, <<2, 0, 2>>, <<0, 1, 1>>, <<3, 0, 3>>,
                  <<3, 0, 2>>, <<0, 3, 1>>, <<0, 2, 2>>, <<3, 1, 3>>, <<0, 3, 3>> >>

\* ten points: the pruned scoring of a refit stops with two entries of the
\* mask set
CloudSpread == << <<2, 2, 2>>, <<0, 3, 1>>, <<2, 2, 2>>, <<6, 7, 3>>, <<6, 2, 2>>,
                 <<4, 1, 3>>, <<2, 4, 1>>, <<0, 5, 2>>, <<2, 2, 0>>, <<2, 1, 1>> >>

\* two points
CloudPair == << <<0, 0, 0>>, <<1, 2, 0>> >>

Clouds == {CloudLayers, CloudTies, CloudScatter, CloudEight, CloudTen, CloudSparse}

\* the clouds that are run with every normal, budget and shuffle seed
SmallClouds == {CloudLayers, CloudTies, CloudScatter, CloudEight}

\* normal == nullptr
NoNormal == <<>>

Normals == {NoNormal, <<0, 0, 1>>, <<0, 0, 2>>}

\* normal_diff_thr as a fraction
Tolerances == {[num |-> 6, den |-> 100]}

\* grid_size <= 0: no downsampling (line 61)
NoGrid == 0

GridSizes == {1, 2}

\* a plane the caller's vector holds from an earlier use
StalePlane == <<1, 0, 0, -1>>

VARIABLES
  points3d, thr, max_iterations, desired_num_planes, grid_size, normal, normal_diff_thr,
  planes_in,         \* the content of the caller's `planes` vector when get_planes is called
  shuffle_seed,      \* the state cv::theRNG() is in at the first call
  theRNG,            \* the state of cv::theRNG(), kept across calls
  pc, run,
  pts3d_plane_fit, planes_, num_planes, inliers_num,
  iter, iterations_left, rng, random_pool, best_model, best_inls, num_inliers,
  inliers,           \* the written part of the buffer `inliers_` (line 84) or `inliers` (line 155)
  lo_iter, inlier_sample,
  points3d_, orig_pts_idx, labels, plane_inls_num, planes, plane_num, lo_inls, e,
  discovered,        \* history: for each entry of planes, the plane_num it was inserted at
  first_labels, first_planes,   \* the outputs of the first call
  scale_a, scale_b, same_plain, same_scaled,  \* check_same_normal on its own
  rounded,           \* history: a rounding decided a comparison of a step taken
  round_up           \* the open tests the last call of get_inliers counted as inliers

inputs == <<points3d, thr, max_iterations, desired_num_planes, grid_size, normal,
            normal_diff_thr, planes_in, shuffle_seed>>

phaseA == <<pts3d_plane_fit, planes_, num_planes, inliers_num>>

getPlane == <<iter, iterations_left, rng, num_inliers>>

shared == <<random_pool, best_model, best_inls, inliers, lo_iter, inlier_sample>>

phaseB == <<points3d_, orig_pts_idx, labels, plane_inls_num, planes, plane_num, lo_inls,
            e, discovered>>

firstRun == <<first_labels, first_planes>>

normalTest == <<scale_a, scale_b, same_plain, same_scaled>>

rounding == <<rounded, round_up>>

vars == <<inputs, theRNG, pc, run, phaseA, getPlane, shared, phaseB, firstRun, normalTest,
          rounding>>

\* the input cloud as points3d_ holds it after lines 40-51
Cloud == InputPoints(points3d).pts

\* before get_planes is entered its locals have no value; the caller's
\* vector holds planes_in
Idle ==
  /\ pts3d_plane_fit = <<>>
  /\ planes_ = <<>>
  /\ num_planes = 1
  /\ inliers_num = 0
  /\ iter = 0
  /\ iterations_left = max_iterations
  /\ rng = RngDefaultState
  /\ random_pool = <<>>
  /\ best_model = ZeroModel
  /\ best_inls = 0
  /\ num_inliers = 0
  /\ inliers = <<>>
  /\ lo_iter = 0
  /\ inlier_sample = <<>>
  /\ points3d_ = <<>>
  /\ orig_pts_idx = <<>>
  /\ labels = <<>>
  /\ plane_inls_num = <<>>
  /\ planes = planes_in
  /\ plane_num = 0
  /\ lo_inls = 0
  /\ e = 0
  /\ discovered = [i \in 1..Len(planes_in) |-> 0]

\* the calls of get_planes: every cloud as an N x 3 matrix with every
\* budget, constraint and state of cv::theRNG(); the voxel filter; a vector
\* the caller has used before; the other layouts of the input
InputFamilies ==
  \/ /\ points3d \in {AsRows(c) : c \in SmallClouds}
     /\ thr \in 1..MaxThr
     /\ max_iterations \in 1..MaxIterations
     /\ desired_num_planes \in 1..MaxPlanes
     /\ grid_size = NoGrid
     /\ normal \in Normals
     /\ planes_in = <<>>
     /\ shuffle_seed \in {RngAfter(j) : j \in 0..(ShuffleSeeds - 1)}
  \/ /\ points3d \in {AsRows(c) : c \in Clouds}
     /\ thr \in {1, 2}
     /\ max_iterations \in {1, 2}
     /\ desired_num_planes \in {1, 2}
     /\ grid_size \in {NoGrid} \cup GridSizes
     /\ normal = NoNormal
     /\ planes_in = <<>>
     /\ shuffle_seed = RngDefaultState
  \/ /\ points3d \in {AsRows(CloudTies), AsRows(CloudLayers)}
     /\ thr = 1
     /\ max_iterations = 1
     /\ desired_num_planes \in {1, 2}
     /\ grid_size = NoGrid
     /\ normal \in Normals
     /\ planes_in = <<StalePlane>>
     /\ shuffle_seed = RngDefaultState
  \/ /\ points3d = AsRows(CloudSpread)
     /\ thr = 1
     /\ max_iterations = 1
     /\ desired_num_planes \in {1, 2}
     /\ grid_size = NoGrid
     /\ normal = NoNormal
     /\ planes_in = <<>>
     /\ shuffle_seed = RngDefaultState
  \/ /\ points3d \in {AsVector(CloudTies), AsColumns(CloudLayers), AsChannels(CloudScatter),
                      AsVector(CloudPair), AsRows(CloudPair), AsVector(<<>>)}
     /\ thr = 1
     /\ max_iterations = 1
     /\ desired_num_planes = 2
     /\ grid_size = NoGrid
     /\ normal = NoNormal
     /\ planes_in = <<>>
     /\ shuffle_seed = RngDefaultState

Init ==
  /\ InputFamilies
  /\ normal_diff_thr \in Tolerances
  /\ theRNG = shuffle_seed
  /\ run = 1
  /\ first_labels = <<>>
  /\ first_planes = <<>>
  /\ scale_a = 1 /\ scale_b = 1 /\ same_plain = FALSE /\ same_scaled = FALSE
  /\ rounded = FALSE /\ round_up = {}
  /\ pc = "call"
  /\ Idle

\* lines 536-538, 565-567, 194-198: the optional normal constraint passes
\* (it is skipped without a normal)
PassesConstraint(model) ==
  IF normal = NoNormal THEN TRUE
  ELSE ModelPassesNormal(model, normal, normal_diff_thr) = "same"

\* what the constraint can answer on the model: pass is the answer, exact
\* says that no rounding decides it
ConstraintOutcomes(model) ==
  IF normal # NoNormal /\ ModelPassesNormal(model, normal, normal_diff_thr) = "rounding"
  THEN {[pass |-> b, exact |-> FALSE] : b \in BOOLEAN}
  ELSE {[pass |-> PassesConstraint(model), exact |-> TRUE]}

\* no call of get_inliers was made
NoScore == [cnt |-> 0, mask |-> <<>>, seen |-> 0, up |-> {}, exact |-> TRUE]

\* a fit that failed, a plane that failed the constraint, a plane that was
\* scored
Trial(fit, c, sc) ==
  [fitted |-> fit.ok, pass |-> fit.ok /\ c.pass, model |-> fit.model, sc |-> sc,
   exact |-> fit.exact /\ c.exact /\ sc.exact]

\* the trials of a fit: the constraint is tested on a plane that was fitted
\* and the score is taken of a plane that passed
TrialsOf(fit, input, bound) ==
  IF ~fit.ok THEN {Trial(fit, [pass |-> FALSE, exact |-> TRUE], NoScore)}
  ELSE UNION {IF ~c.pass THEN {Trial(fit, c, NoScore)}
              ELSE {Trial(fit, c, sc) : sc \in ScoreOutcomes(fit.model, input, thr, bound)} :
              c \in ConstraintOutcomes(fit.model)}

\* lines 534-540, 562-569, 191-199: the fit of the sample, the constraint
\* and the score against the bound, with every outcome they can have
Trials(input, sample, bound) ==
  UNION {TrialsOf(fit, input, bound) : fit \in FitOutcomes(input, sample)}

(***************************************************************************)
(* The entry of get_planes (lines 30-91).                                  *)
(***************************************************************************)
\* line 48: CV_CheckEQ throws, get_planes is left with nothing written; so
\* it is when VoxelGrid faults on its read of the first point of a cloud
\* without points (lines 287-295)
GetPlanesThrows ==
  /\ pc = "call"
  /\ \/ ~InputPoints(points3d).ok
     \/ grid_size > 0 /\ Len(Cloud) = 0
  /\ pc' = "thrown"
  /\ UNCHANGED <<inputs, theRNG, run, phaseA, getPlane, shared, phaseB, firstRun, normalTest, rounding>>

\* lines 40-91: the conversion of the input, the voxel filter when
\* grid_size > 0, and the allocation of the mask, of which nothing is
\* written yet
Entered(filtered) ==
  /\ pc = "call"
  /\ InputPoints(points3d).ok
  /\ pts3d_plane_fit' = filtered.pts
  /\ rounded' = (rounded \/ ~filtered.exact)
  /\ points3d_' = Cloud
  /\ planes_' = <<>>
  /\ num_planes' = 1
  /\ inliers_num' = 0
  /\ iter' = 0
  /\ iterations_left' = max_iterations
  /\ random_pool' = <<>>
  /\ best_model' = ZeroModel
  /\ best_inls' = 0
  /\ num_inliers' = 0
  /\ inliers' = <<>>
  /\ lo_iter' = 0
  /\ inlier_sample' = <<>>
  /\ orig_pts_idx' = <<>>
  /\ labels' = <<>>
  /\ plane_inls_num' = <<>>
  /\ plane_num' = 0
  /\ lo_inls' = 0
  /\ e' = 0
  /\ pc' = "A_loop"
  /\ UNCHANGED <<inputs, theRNG, rng, run, planes, discovered, firstRun, normalTest, round_up>>

\* lines 61-81: the cloud the planes are looked for in.  VoxelGrid reads
\* the first point before its loops (lines 287-295): on a cloud without
\* points the read is outside the matrix, and a build that does not fault
\* there runs no loop and writes no point
Filtered ==
  IF grid_size > 0
  THEN (IF Len(Cloud) >= 1 THEN VoxelOutcomes(Cloud, grid_size)
        ELSE {[exact |-> FALSE, pts |-> <<>>]})
  ELSE {[exact |-> TRUE, pts |-> Cloud]}

GetPlanesEnter ==
  /\ pc = "call" /\ InputPoints(points3d).ok
  /\ \E filtered \in Filtered : Entered(filtered)

(***************************************************************************)
(* Phase A (lines 93-132) and get_plane (lines 514-594).                   *)
(***************************************************************************)
\* lines 94-103 with fewer than three points: get_plane returns 0 (line 519)
\* and the loop of line 93 ends (line 103)
GetPlaneTooFew ==
  /\ pc = "A_loop"
  /\ num_planes <= desired_num_planes
  /\ Len(pts3d_plane_fit) < 3
  /\ best_model' = ZeroModel
  /\ inliers_num' = 0
  /\ pc' = "B_init"
  /\ UNCHANGED <<inputs, theRNG, run, pts3d_plane_fit, planes_, num_planes,
                 getPlane, random_pool, best_inls, inliers, lo_iter, inlier_sample,
                 phaseB, firstRun, normalTest, rounding>>

\* lines 94-102: model_ is declared, all zeros, and get_plane is called
\* (lines 518-528)
GetPlaneEnter ==
  /\ pc = "A_loop"
  /\ num_planes <= desired_num_planes
  /\ Len(pts3d_plane_fit) >= 3
  /\ best_model' = ZeroModel
  /\ random_pool' = Iota(Len(pts3d_plane_fit))
  /\ rng' = RngDefaultState
  /\ best_inls' = 0
  /\ num_inliers' = 0
  /\ iter' = 0
  /\ iterations_left' = max_iterations
  /\ pc' = "gp_iter"
  /\ UNCHANGED <<inputs, theRNG, run, phaseA, inliers, lo_iter,
                 inlier_sample, phaseB, firstRun, normalTest, rounding>>

\* the minimal sample of line 532
MinimalDraw == DrawSample(rng, Len(pts3d_plane_fit), min_sample_size)

\* its fit of line 534, the constraint of lines 536-538 and the score of
\* line 540
MinimalTrials == Trials(pts3d_plane_fit, MinimalDraw.sample, best_inls)

\* lines 532-538: the sample is degenerate or its plane fails the constraint
Rejected(draw, t) ==
  /\ pc = "gp_iter"
  /\ iter < iterations_left
  /\ ~t.pass
  /\ rng' = draw.st
  /\ iter' = iter + 1
  /\ rounded' = (rounded \/ ~t.exact)
  /\ UNCHANGED <<inputs, theRNG, pc, run, phaseA, iterations_left, num_inliers,
                 shared, phaseB, firstRun, normalTest, round_up>>

SampleRejected ==
  /\ pc = "gp_iter" /\ iter < iterations_left
  /\ \E t \in MinimalTrials : Rejected(MinimalDraw, t)

\* lines 532-542: the plane is scored and does not beat the best
Scored(draw, t) ==
  /\ pc = "gp_iter"
  /\ iter < iterations_left
  /\ t.pass
  /\ ~(t.sc.cnt > best_inls)
  /\ inliers' = WriteMask(inliers, t.sc.mask)
  /\ num_inliers' = t.sc.cnt
  /\ rng' = draw.st
  /\ iter' = iter + 1
  /\ rounded' = (rounded \/ ~t.exact)
  /\ round_up' = t.sc.up
  /\ UNCHANGED <<inputs, theRNG, pc, run, phaseA, iterations_left, random_pool,
                 best_model, best_inls, lo_iter, inlier_sample, phaseB, firstRun, normalTest>>

SampleScored ==
  /\ pc = "gp_iter" /\ iter < iterations_left
  /\ \E t \in MinimalTrials : Scored(MinimalDraw, t)

\* lines 532-549: the plane beats the best and local optimization starts
Adopted(draw, t) ==
  /\ pc = "gp_iter"
  /\ iter < iterations_left
  /\ t.pass
  /\ t.sc.cnt > best_inls
  /\ inliers' = WriteMask(inliers, t.sc.mask)
  /\ num_inliers' = t.sc.cnt
  /\ best_inls' = t.sc.cnt
  /\ best_model' = t.model
  /\ rng' = draw.st
  /\ lo_iter' = 0
  /\ rounded' = (rounded \/ ~t.exact)
  /\ round_up' = t.sc.up
  /\ pc' = "gp_lo_collect"
  /\ UNCHANGED <<inputs, theRNG, run, phaseA, iter, iterations_left, random_pool,
                 inlier_sample, phaseB, firstRun, normalTest>>

SampleAdopted ==
  /\ pc = "gp_iter" /\ iter < iterations_left
  /\ \E t \in MinimalTrials : Adopted(MinimalDraw, t)

\* lines 550-560: one round shuffles the pool, which has three entries or
\* more, and collects the sample
Collected(sh) ==
  /\ pc = "gp_lo_collect"
  /\ sh.ok
  /\ random_pool' = sh.arr
  /\ theRNG' = sh.st
  /\ inlier_sample' = CollectInlierSample(sh.arr, inliers, max_lo_inliers_gp)
  /\ pc' = "gp_lo_fit"
  /\ UNCHANGED <<inputs, run, phaseA, getPlane, best_model, best_inls, inliers,
                 lo_iter, phaseB, firstRun, normalTest, rounding>>

LoCollect == Collected(randShuffle(random_pool, theRNG))

\* lines 562-577: the refit of the round, its score, and the loop control
Refitted(t, more) ==
  /\ pc = "gp_lo_fit"
  /\ IF ~t.pass
     THEN /\ pc' = IF more THEN "gp_lo_collect" ELSE "gp_lo_end"
          /\ UNCHANGED <<inliers, num_inliers, best_model, best_inls, round_up>>
     ELSE /\ inliers' = WriteMask(inliers, t.sc.mask)
          /\ num_inliers' = t.sc.cnt
          /\ round_up' = t.sc.up
          /\ IF best_inls < t.sc.cnt
             THEN /\ best_model' = t.model
                  /\ best_inls' = t.sc.cnt
                  /\ pc' = IF more THEN "gp_lo_collect" ELSE "gp_lo_end"
             ELSE /\ UNCHANGED <<best_model, best_inls>>
                  /\ pc' = IF best_inls = t.sc.cnt \/ ~more
                           THEN "gp_lo_end" ELSE "gp_lo_collect"
  /\ lo_iter' = lo_iter + 1
  /\ rounded' = (rounded \/ ~t.exact)
  /\ UNCHANGED <<inputs, theRNG, run, phaseA, iter, iterations_left, rng,
                 random_pool, inlier_sample, phaseB, firstRun, normalTest>>

\* the fit of line 562, the constraint of lines 564-566 and the score of
\* line 569
LoTrials == Trials(pts3d_plane_fit, inlier_sample, best_inls)

LoRefit ==
  /\ pc = "gp_lo_fit"
  /\ \E t \in LoTrials : Refitted(t, lo_iter + 1 < max_lo_iters_gp)

\* lines 579-586 and the ++iter of line 530
ShrinkBudget ==
  /\ pc = "gp_lo_end"
  /\ iterations_left' = ShrunkIterations(iterations_left, best_inls, Len(pts3d_plane_fit))
  /\ iter' = iter + 1
  /\ pc' = "gp_iter"
  /\ UNCHANGED <<inputs, theRNG, run, phaseA, rng, num_inliers, shared, phaseB, firstRun, normalTest, rounding>>

\* lines 589-593: the loop of line 530 is over; the mask and the count
\* handed back
Returned(sc) ==
  /\ pc = "gp_iter"
  /\ ~(iter < iterations_left)
  /\ inliers' = WriteMask(inliers, sc.mask)
  /\ best_inls' = sc.cnt
  /\ inliers_num' = sc.cnt
  /\ rounded' = (rounded \/ ~sc.exact)
  /\ round_up' = sc.up
  /\ pc' = "A_after"
  /\ UNCHANGED <<inputs, theRNG, run, pts3d_plane_fit, planes_, num_planes, getPlane,
                 random_pool, best_model, lo_iter, inlier_sample, phaseB, firstRun, normalTest>>

\* no call is made: the buffer and the count are left as they are
Kept == [cnt |-> best_inls, mask |-> <<>>, seen |-> 0, up |-> round_up, exact |-> TRUE]

\* a return that never counts again: the mask of the last scoring
FinalScoresKept == {Kept}

\* line 592: the final count of get_plane
FinalScores ==
  IF best_inls # 0 /\ best_inls >= num_inliers
  THEN ScoreOutcomes(best_model, pts3d_plane_fit, thr, DefaultBestInls)
  ELSE {Kept}

\* lines 589-593: the mask of the best model is computed again, without
\* pruning, unless the last scoring was the best one
GetPlaneReturn ==
  /\ pc = "gp_iter" /\ ~(iter < iterations_left)
  /\ \E sc \in FinalScores : Returned(sc)

\* lines 103-131: the candidate is recorded and its inliers leave the set
RecordCandidate ==
  /\ pc = "A_after"
  /\ IF inliers_num = 0
     THEN /\ pc' = "B_init"
          /\ UNCHANGED <<pts3d_plane_fit, planes_, num_planes>>
     ELSE /\ planes_' = Append(planes_, best_model)
          /\ IF num_planes = desired_num_planes
             THEN /\ pc' = "B_init"
                  /\ UNCHANGED <<pts3d_plane_fit, num_planes>>
             ELSE /\ pts3d_plane_fit' = Compact(pts3d_plane_fit, inliers, FALSE, 1)
                  /\ num_planes' = num_planes + 1
                  /\ pc' = "A_loop"
  /\ UNCHANGED <<inputs, theRNG, run, inliers_num, getPlane, shared, phaseB, firstRun, normalTest, rounding>>

(***************************************************************************)
(* Phase B (lines 147-251): refinement on the input cloud, ranking and     *)
(* labelling.                                                              *)
(***************************************************************************)
\* lines 133-165: the mask of Phase A is freed and a new one allocated, of
\* which nothing is written yet; the caller's vector is left as it is
BeginRefinement ==
  /\ pc = "B_init"
  /\ points3d_' = Cloud
  /\ labels' = [i \in 1..Len(Cloud) |-> 0]
  /\ orig_pts_idx' = Iota(Len(Cloud))
  /\ inliers' = <<>>
  /\ best_model' = ZeroModel
  /\ plane_inls_num' = <<0>>
  /\ plane_num' = 1
  /\ pc' = IF Len(planes_) >= 1 THEN "B_plane" ELSE "done"
  /\ UNCHANGED <<inputs, theRNG, run, phaseA, getPlane, random_pool, best_inls, lo_iter,
                 inlier_sample, planes, discovered, lo_inls, e, firstRun, normalTest, rounding>>

\* lines 173-180: the candidate is scored on the working set
Started(sc) ==
  /\ pc = "B_plane"
  /\ best_model' = planes_[plane_num]
  /\ random_pool' = Iota(Len(points3d_))
  /\ inliers' = WriteMask(inliers, sc.mask)
  /\ best_inls' = sc.cnt
  /\ lo_inls' = 0
  /\ lo_iter' = 0
  /\ rounded' = (rounded \/ ~sc.exact)
  /\ round_up' = sc.up
  /\ pc' = "B_lo_collect"
  /\ UNCHANGED <<inputs, theRNG, run, phaseA, getPlane, inlier_sample, points3d_,
                 orig_pts_idx, labels, plane_inls_num, planes, plane_num, e, discovered,
                 firstRun, normalTest>>

\* the count of line 178
StartScores == ScoreOutcomes(planes_[plane_num], points3d_, thr, DefaultBestInls)

RefineStart ==
  /\ pc = "B_plane"
  /\ \E sc \in StartScores : Started(sc)

\* lines 181-189: one round shuffles the pool and collects the sample.  On
\* a working set without points cv::randShuffle throws (line 181) and
\* get_planes is left with the planes and the labels written so far
RefineCollected(sh) ==
  /\ pc = "B_lo_collect"
  /\ IF sh.ok
     THEN /\ random_pool' = sh.arr
          /\ theRNG' = sh.st
          /\ inlier_sample' = CollectInlierSample(sh.arr, inliers, max_lo_inliers)
          /\ pc' = "B_lo_fit"
     ELSE /\ pc' = "thrown"
          /\ UNCHANGED <<random_pool, theRNG, inlier_sample>>
  /\ UNCHANGED <<inputs, run, phaseA, getPlane, best_model, best_inls, inliers,
                 lo_iter, phaseB, firstRun, normalTest, rounding>>

RefineCollect == RefineCollected(randShuffle(random_pool, theRNG))

\* lines 191-207
RefineRefitted(t, more) ==
  /\ pc = "B_lo_fit"
  /\ IF ~t.pass
     THEN /\ pc' = IF more THEN "B_lo_collect" ELSE "B_insert"
          /\ UNCHANGED <<inliers, lo_inls, best_model, best_inls, round_up>>
     ELSE /\ inliers' = WriteMask(inliers, t.sc.mask)
          /\ lo_inls' = t.sc.cnt
          /\ round_up' = t.sc.up
          /\ IF best_inls < t.sc.cnt
             THEN /\ best_model' = t.model
                  /\ best_inls' = t.sc.cnt
                  /\ pc' = IF more THEN "B_lo_collect" ELSE "B_insert"
             ELSE /\ UNCHANGED <<best_model, best_inls>>
                  /\ pc' = IF best_inls = t.sc.cnt \/ ~more
                           THEN "B_insert" ELSE "B_lo_collect"
  /\ lo_iter' = lo_iter + 1
  /\ rounded' = (rounded \/ ~t.exact)
  /\ UNCHANGED <<inputs, theRNG, run, phaseA, getPlane, random_pool, inlier_sample,
                 points3d_, orig_pts_idx, labels, plane_inls_num, planes, plane_num,
                 e, discovered, firstRun, normalTest>>

\* the fit of line 191, the constraint of lines 194-198 and the score of
\* line 200
RefineTrials == Trials(points3d_, inlier_sample, best_inls)

RefineRefit ==
  /\ pc = "B_lo_fit"
  /\ \E t \in RefineTrials : RefineRefitted(t, lo_iter + 1 < max_lo_iters)

\* lines 213-250: the insertion into the ranked list and into the caller's
\* vector, the labels of the inliers and the compaction of the working set
Ranked(cnt, mask, pos) ==
  /\ best_inls' = cnt
  /\ inliers' = WriteMask(inliers, mask)
  /\ e' = pos
  /\ plane_inls_num' = InsertAt(plane_inls_num, pos, cnt)
  /\ planes' = InsertAt(planes, pos, best_model)
  /\ discovered' = InsertAt(discovered, pos, plane_num)
  /\ labels' = WriteLabels(labels, orig_pts_idx, mask, plane_num)
  /\ IF plane_num = Len(planes_)
     THEN /\ pc' = "done"
          /\ UNCHANGED <<points3d_, orig_pts_idx, plane_num>>
     ELSE /\ points3d_' = Compact(points3d_, mask, FALSE, 1)
          /\ orig_pts_idx' = Compact(orig_pts_idx, mask, FALSE, 1)
          /\ plane_num' = plane_num + 1
          /\ pc' = "B_plane"
  /\ UNCHANGED <<inputs, theRNG, run, phaseA, getPlane, random_pool, best_model,
                 lo_iter, inlier_sample, lo_inls, firstRun, normalTest>>

\* no call is made: the count and the mask of the last scoring
LastScore ==
  [cnt |-> best_inls, mask |-> MaskOf(inliers, Len(points3d_)), seen |-> 0,
   up |-> round_up, exact |-> TRUE]

\* the round ends with the score sc
RankedWith(sc) ==
  /\ pc = "B_insert"
  /\ rounded' = (rounded \/ ~sc.exact)
  /\ round_up' = sc.up
  /\ Ranked(sc.cnt, sc.mask, InsertPosition(plane_inls_num, sc.cnt))

\* a round that never counts again: the mask of the last scoring
RefinedScoresLast == {LastScore}

\* line 209: the final count of the round
RefinedScores ==
  IF best_inls >= lo_inls
  THEN ScoreOutcomes(best_model, points3d_, thr, DefaultBestInls)
  ELSE {LastScore}

\* lines 209-250: the final count, computed again without pruning unless
\* the last scoring was the best one, then the insertion and the labels
RankAndLabel ==
  /\ pc = "B_insert"
  /\ \E sc \in RefinedScores : RankedWith(sc)

\* the caller keeps the outputs of the first call and calls get_planes
\* again on the same cloud with the same parameters.  Before the call it
\* puts cv::theRNG() back to the state of the first call (runs 2 and 4) or
\* leaves it as the first call left it (run 3); it hands in a vector with
\* the content `planes` had at the first call (runs 2 and 3) or the vector
\* of the first call as that call left it (run 4)
CallAgain ==
  /\ pc = "done"
  /\ run = 1
  /\ \/ run' = 2 /\ theRNG' = shuffle_seed /\ planes' = planes_in
     \/ run' = 3 /\ theRNG' = theRNG /\ planes' = planes_in
     \/ run' = 4 /\ theRNG' = shuffle_seed /\ planes' = planes
  /\ first_labels' = labels
  /\ first_planes' = planes
  /\ discovered' = [i \in 1..Len(planes') |-> 0]
  /\ pc' = "call"
  /\ UNCHANGED <<inputs, phaseA, getPlane, shared, points3d_, orig_pts_idx, labels,
                 plane_inls_num, plane_num, lo_inls, e, normalTest, rounding>>

Next ==
  \/ GetPlanesThrows
  \/ GetPlanesEnter
  \/ GetPlaneTooFew
  \/ GetPlaneEnter
  \/ SampleRejected
  \/ SampleScored
  \/ SampleAdopted
  \/ LoCollect
  \/ LoRefit
  \/ ShrinkBudget
  \/ GetPlaneReturn
  \/ RecordCandidate
  \/ BeginRefinement
  \/ RefineStart
  \/ RefineCollect
  \/ RefineRefit
  \/ RankAndLabel
  \/ CallAgain

Spec == Init /\ [][Next]_vars

(***************************************************************************)
(* get_inliers on its own: a plane, a point set, a threshold and a pruning *)
(* bound are drawn, and one call scores the plane with the bound.          *)
(***************************************************************************)
\* the variables the call does not touch
Quiescent ==
  /\ max_iterations = 1 /\ desired_num_planes = 1 /\ grid_size = NoGrid
  /\ normal = NoNormal /\ normal_diff_thr \in Tolerances /\ planes_in = <<>>
  /\ shuffle_seed = RngDefaultState /\ theRNG = RngDefaultState /\ run = 1
  /\ planes_ = <<>> /\ num_planes = 1 /\ inliers_num = 0
  /\ iter = 0 /\ iterations_left = 1 /\ rng = RngDefaultState /\ random_pool = <<>>
  /\ lo_iter = 0 /\ inlier_sample = <<>>
  /\ points3d_ = <<>> /\ orig_pts_idx = <<>> /\ labels = <<>>
  /\ plane_inls_num = <<>> /\ planes = <<>> /\ plane_num = 0 /\ lo_inls = 0
  /\ e = 0 /\ discovered = <<>>
  /\ first_labels = <<>> /\ first_planes = <<>>
  /\ rounded = FALSE /\ round_up = {}

\* the fits of the samples of four consecutive points of a cloud
WindowFits(input) ==
  {total_least_squares_plane_estimate(input, <<i, i + 1, i + 2, i + 3>>) :
     i \in 1..(Len(input) - 3)}

\* the planes get_inliers is called on: the planes of the minimal samples,
\* the fits of four points, and a plane with a NaN
ScoredPlanes(input) ==
  SamplePlanes(input) \cup {f.model : f \in {g \in WindowFits(input) : g.exact}}
    \cup {NaNModel}

InitInliers ==
  /\ points3d \in {AsRows(c) : c \in Clouds}
  /\ thr \in 1..MaxThr
  /\ pc = "gi_call"
  /\ \E k \in 0..Len(Cloud) : pts3d_plane_fit = SubSeq(Cloud, 1, k)
  /\ best_model \in ScoredPlanes(Cloud)
  /\ best_inls \in 0..(Len(Cloud) + 1)
  /\ num_inliers = 0
  /\ inliers = <<>>
  /\ scale_a = 1 /\ scale_b = 1 /\ same_plain = FALSE /\ same_scaled = FALSE
  /\ Quiescent

\* num_inliers = get_inliers(inliers, model, pts, thr, best_inls) (lines 540, 569)
ScoredWithBound(sc) ==
  /\ pc = "gi_call"
  /\ inliers' = WriteMask(inliers, sc.mask)
  /\ num_inliers' = sc.cnt
  /\ rounded' = (rounded \/ ~sc.exact)
  /\ round_up' = sc.up
  /\ pc' = "gi_done"
  /\ UNCHANGED <<inputs, theRNG, run, phaseA, iter, iterations_left, rng, random_pool,
                 best_model, best_inls, lo_iter, inlier_sample, phaseB, firstRun,
                 normalTest>>

ScoreWithBound ==
  /\ pc = "gi_call"
  /\ \E sc \in ScoreOutcomes(best_model, pts3d_plane_fit, thr, best_inls) : ScoredWithBound(sc)

SpecInliers == InitInliers /\ [][ScoreWithBound]_vars

(***************************************************************************)
(* check_same_normal on its own: a plane normal, a target normal, a        *)
(* tolerance and two positive scale factors are drawn; the test is applied *)
(* to the vectors and to the scaled vectors.                               *)
(***************************************************************************)
SmallVectors == {v \in (-1..1) \X (-1..1) \X (-1..1) : v # <<0, 0, 0>>}

NormalScales == {1, 2, 3}

NormalTolerances == Tolerances \cup {[num |-> 1, den |-> 2], [num |-> 2, den |-> 1]}

Scaled(k, v) == <<k * v[1], k * v[2], k * v[3]>>

InitNormal ==
  /\ points3d = AsRows(CloudLayers)
  /\ thr = 1
  /\ pc = "n_call"
  /\ \E v \in SmallVectors : best_model = <<v[1], v[2], v[3], 0>>
  /\ normal \in SmallVectors
  /\ normal_diff_thr \in NormalTolerances
  /\ scale_a \in NormalScales
  /\ scale_b \in NormalScales
  /\ same_plain = FALSE /\ same_scaled = FALSE
  /\ max_iterations = 1 /\ desired_num_planes = 1 /\ grid_size = NoGrid
  /\ planes_in = <<>>
  /\ shuffle_seed = RngDefaultState /\ theRNG = RngDefaultState /\ run = 1
  /\ pts3d_plane_fit = <<>> /\ planes_ = <<>> /\ num_planes = 1 /\ inliers_num = 0
  /\ iter = 0 /\ iterations_left = 1 /\ rng = RngDefaultState /\ random_pool = <<>>
  /\ best_inls = 0 /\ num_inliers = 0 /\ inliers = <<>>
  /\ lo_iter = 0 /\ inlier_sample = <<>>
  /\ points3d_ = <<>> /\ orig_pts_idx = <<>> /\ labels = <<>>
  /\ plane_inls_num = <<>> /\ planes = <<>> /\ plane_num = 0 /\ lo_inls = 0
  /\ e = 0 /\ discovered = <<>>
  /\ first_labels = <<>> /\ first_planes = <<>>
  /\ rounded = FALSE /\ round_up = {}

\* check_same_normal(actual_plane, expect_normal, thr) on the vectors as
\* given and on their positive multiples
TestNormals ==
  /\ pc = "n_call"
  /\ LET v == <<best_model[1], best_model[2], best_model[3]>>
         plain  == check_same_normal(v, 1, normal, normal_diff_thr)
         scaled == check_same_normal(Scaled(scale_a, v), 1,
                                     Scaled(scale_b, normal), normal_diff_thr)
     IN  /\ plain # "rounding"
         /\ scaled # "rounding"
         /\ same_plain' = (plain = "same")
         /\ same_scaled' = (scaled = "same")
  /\ pc' = "n_done"
  /\ UNCHANGED <<inputs, theRNG, run, phaseA, getPlane, shared, phaseB, firstRun,
                 scale_a, scale_b, rounding>>

SpecNormal == InitNormal /\ [][TestNormals]_vars

(***************************************************************************)
(* Properties.                                                             *)
(***************************************************************************)
\* the planes the caller's vector held when this call was made
HandedIn == Cardinality({i \in 1..Len(discovered) : discovered[i] = 0})

\* the planes this call has inserted into the caller's vector
FoundPlanes == Len(planes) - HandedIn

\* the control is inside Phase B or get_planes has returned (lines 165-251)
InPhaseB == pc \in {"B_plane", "B_lo_collect", "B_lo_fit", "B_insert", "done"}

\* C1 (as stated): after get_planes returns, every point with label k >= 1
\* is closer than thr to planes[k-1], the k-th plane of the ranked list.
C1_LabelIsRankOfInlierPlane ==
  pc = "done" =>
    \A i \in 1..Len(labels) :
      labels[i] >= 1 =>
        /\ labels[i] <= Len(planes)
        /\ ~IsOutlier(planes[labels[i]], Cloud[i], thr)

\* C2 (as stated): a plane inserted with a count equal to counts already in
\* the ranked list is placed after all those entries, so equal-count planes
\* appear in the order of their discovery (checked on the runs in which no
\* rounding decides a comparison).
C2_TiesKeepDiscoveryOrder ==
  (InPhaseB /\ ~rounded) =>
    /\ (e >= 1 /\ e <= FoundPlanes) =>
         \A i \in 1..FoundPlanes :
           (i # e /\ plane_inls_num[i] = plane_inls_num[e]) => i < e
    /\ \A i, j \in 1..FoundPlanes :
         (i < j /\ plane_inls_num[i] = plane_inls_num[j]) => discovered[i] < discovered[j]

\* C3: after every insertion of Phase B and on return, the inlier counts of
\* the ranked list are non-increasing from the first rank to the last (the
\* list of counts has one entry per plane inserted by the call and ends with
\* the 0 of line 159).
C3_CountsNonIncreasing ==
  InPhaseB =>
    /\ \A i \in 1..(Len(plane_inls_num) - 1) : plane_inls_num[i] >= plane_inls_num[i + 1]
    /\ Len(plane_inls_num) = FoundPlanes + 1
    /\ plane_inls_num[Len(plane_inls_num)] = 0

\* the plane discovered second has strictly more inliers than the first one
\* and was ranked before it
C3_LaterPlaneRankedFirst ==
  /\ pc = "done"
  /\ FoundPlanes >= 2
  /\ discovered[1] = 2
  /\ plane_inls_num[1] > plane_inls_num[2]

\* C4 (as stated): on return the label map has one entry per input point,
\* every entry is in 0..numPlanesFound, the length of the returned plane
\* list, and numPlanesFound <= desired_num_planes.
C4_LabelsInRange ==
  pc = "done" =>
    /\ Len(labels) = Len(Cloud)
    /\ \A i \in 1..Len(labels) : labels[i] \in 0..Len(planes)
    /\ Len(planes) <= desired_num_planes

\* the statement of C4 for a caller whose plane vector is empty
LabelsInRangeFromEmptyList ==
  HandedIn = 0 => C4_LabelsInRange

\* C5: if the exhaustive inlier count of the plane is >= the pruning bound,
\* get_inliers returns the exhaustive count and the exhaustive mask; the
\* scan stops early only when the exhaustive count is below the bound; a
\* count on which a model is adopted (count > bound) is the exhaustive one.
\* The exhaustive mask has the tests a rounding decides as the call had
\* them, and those the call did not evaluate in every way they can come out.
C5_PruningKeepsCompetitiveCounts ==
  pc = "gi_done" =>
    LET seen == get_inliers(best_model, pts3d_plane_fit, thr, best_inls, round_up).seen
    IN  \A up \in SUBSET Ties(best_model, pts3d_plane_fit, thr) :
          up \cap (1..seen) = round_up =>
            LET full == MaskWith(best_model, pts3d_plane_fit, thr, up)
                n == CountTrue(full)
            IN  /\ n >= best_inls => (num_inliers = n /\ inliers = full)
                /\ seen < Len(pts3d_plane_fit) => n < best_inls
                /\ num_inliers > best_inls => num_inliers = n

\* a plane that reaches a bound of two or more without holding every point,
\* with a point at the threshold that the call counted, and whose scan a
\* higher bound would have cut short
C5_CompetitivePlaneScored ==
  /\ pc = "gi_done"
  /\ round_up # {}
  /\ best_inls >= 2
  /\ num_inliers >= best_inls
  /\ num_inliers < Len(pts3d_plane_fit)
  /\ \E b \in (best_inls + 1)..(Len(pts3d_plane_fit) + 1) :
       get_inliers(best_model, pts3d_plane_fit, thr, b, round_up).seen < Len(pts3d_plane_fit)

\* C6: when get_plane returns a nonzero count, the mask handed back is the
\* unpruned inlier set of the returned plane (with the tests a rounding
\* decides as the last call had them) and the count is the number of its
\* true entries, whichever scoring ran last.
C6_ReturnedMaskIsExact ==
  (pc = "A_after" /\ inliers_num # 0) =>
    /\ MaskOf(inliers, Len(pts3d_plane_fit))
         = MaskWith(best_model, pts3d_plane_fit, thr, round_up)
    /\ inliers_num = CountTrue(MaskOf(inliers, Len(pts3d_plane_fit)))

\* get_plane returned a plane after a last scoring that counted fewer points
C6_ReturnAfterWeakerScoring ==
  /\ pc = "A_after"
  /\ inliers_num # 0
  /\ num_inliers < inliers_num

\* C7 (as stated): two runs of get_planes on the same cloud with the same
\* parameters, both started with the sampling generator and cv::theRNG() in
\* the same state, give the same label map and the same ranked plane list
\* (checked on the runs in which no rounding decides a comparison).
C7_SeededRerunIdentical ==
  (pc = "done" /\ run \in {2, 4} /\ ~rounded) =>
    /\ labels = first_labels
    /\ planes = first_planes

\* the statement of C7 for a caller who hands in, at the second call, a
\* vector with the content it had at the first call
SeededRerunIdenticalFromSameList ==
  (pc = "done" /\ run = 2 /\ ~rounded) =>
    /\ labels = first_labels
    /\ planes = first_planes

\* the model fails the normal test
FailsNormal(model) == ModelPassesNormal(model, normal, normal_diff_thr) = "differs"

\* C8 (as stated): with a target normal, every plane in the list returned by
\* get_planes passes check_same_normal; no plane that fails the test is ever
\* adopted as best or recorded as a candidate; and when no sampled plane
\* passes the test, zero planes are returned.
C8_PlanesPassNormalTest ==
  normal # NoNormal =>
    /\ pc = "done" => \A i \in 1..Len(planes) : ~FailsNormal(planes[i])
    /\ pc = "done" => (planes_ = <<>> => planes = <<>>)
    /\ \A i \in 1..Len(planes_) : ~FailsNormal(planes_[i])
    /\ (pc \notin {"call", "thrown"} /\ best_model # ZeroModel) => ~FailsNormal(best_model)

\* the statement of C8 for a caller whose plane vector is empty
PlanesPassNormalTestFromEmptyList ==
  HandedIn = 0 => C8_PlanesPassNormalTest

\* C9 (as stated): check_same_normal gives the same answer for (s1*n, s2*t)
\* as for (n, t), for all positive scale factors s1 and s2.
C9_ScaleInvariant ==
  pc = "n_done" => same_plain = same_scaled

\* C10 (as stated): in every local-optimization round the indices collected
\* for the refit are all inliers of the current best plane.
C10_SampleFromInliersOfBest ==
  /\ pc = "gp_lo_fit" =>
       \A i \in 1..Len(inlier_sample) :
         ~IsOutlier(best_model, pts3d_plane_fit[inlier_sample[i]], thr)
  /\ pc = "B_lo_fit" =>
       \A i \in 1..Len(inlier_sample) :
         ~IsOutlier(best_model, points3d_[inlier_sample[i]], thr)

\* the control is inside get_plane's main loop (lines 530-587)
InGetPlane == pc \in {"gp_iter", "gp_lo_collect", "gp_lo_fit", "gp_lo_end"}

\* the counters of a get_plane call stay within the caller's budget
C11_CountersWithinBudget ==
  InGetPlane =>
    /\ iterations_left <= max_iterations
    /\ iter <= max_iterations
    /\ pc # "gp_iter" => lo_iter <= max_lo_iters_gp

\* the position of a get_plane call: main-loop iterations done, then the
\* steps done inside the current one
C11_Position ==
  iter * (2 * max_lo_iters_gp + 2)
    + (IF pc = "gp_iter" THEN 0
       ELSE IF pc = "gp_lo_fit" THEN 2 * lo_iter + 2
       ELSE 2 * lo_iter + 1)

\* a step inside get_plane never raises the budget, reaches the head of the
\* main loop only with one more iteration counted, and moves the position
\* forward
C11_StepConsumesBudget ==
  (InGetPlane /\ InGetPlane') =>
    /\ iterations_left' <= iterations_left
    /\ pc' = "gp_iter" => iter' = iter + 1
    /\ pc' # "gp_iter" => iter' = iter /\ lo_iter' <= lo_iter + 1
    /\ C11_Position' > C11_Position

\* C11: within one get_plane call the iteration budget never increases,
\* every main-loop iteration, skipped ones included, consumes one unit of
\* it, and the call ends after at most max_iterations main-loop iterations
\* of at most 10 local-optimization rounds each: every step moves a bounded
\* position forward.
C11_GetPlaneTerminatesWithinBudget ==
  /\ []C11_CountersWithinBudget
  /\ [][C11_StepConsumesBudget]_vars

\* get_plane returns after a call in which the budget was cut below the
\* caller's max_iterations
C11_BudgetCutAndReturned ==
  /\ pc = "A_after"
  /\ iterations_left < max_iterations
  /\ iter = 1
  /\ max_iterations >= 2

\* C12 (as stated): every call of total_least_squares_plane_estimate made by
\* the pipeline passes at least 3 sample indices: the minimal sample of
\* get_plane, the samples of its local optimization and those of Phase B
\* (checked on the runs in which no rounding decides a comparison).
C12_SamplesHaveThreeIndices ==
  ~rounded =>
    /\ pc = "gp_iter" => Len(MinimalDraw.sample) >= 3
    /\ pc = "gp_lo_fit" => Len(inlier_sample) >= 3
    /\ pc = "B_lo_fit" => Len(inlier_sample) >= 3

\* the original-index map of the working set is strictly increasing and
\* names the input point of every point of the working set
C13_IndexMapIncreasing ==
  InPhaseB =>
    /\ Len(orig_pts_idx) = Len(points3d_)
    /\ \A a \in 1..Len(orig_pts_idx) :
         /\ orig_pts_idx[a] \in 1..Len(Cloud)
         /\ points3d_[a] = Cloud[orig_pts_idx[a]]
    /\ \A a, b \in 1..Len(orig_pts_idx) : a < b => orig_pts_idx[a] < orig_pts_idx[b]

\* on return from a call with an empty `planes`, no unlabelled point is
\* closer than thr to a returned plane, and a point labelled in round j is
\* not at distance thr or more from the plane of round j and not closer
\* than thr to the plane of an earlier round
C13_LabelsSeparatePlanes ==
  (pc = "done" /\ HandedIn = 0) =>
    \A i \in 1..Len(labels) : \A k \in 1..Len(planes) :
      /\ labels[i] = 0 => ~IsInlier(planes[k], Cloud[i], thr)
      /\ discovered[k] < labels[i] => ~IsInlier(planes[k], Cloud[i], thr)
      /\ discovered[k] = labels[i] => ~IsOutlier(planes[k], Cloud[i], thr)

\* a round of Phase B leaves the labels of the earlier rounds alone and
\* labels only points of its working set
C13_LabelledOnce ==
  (pc = "B_insert" /\ Len(labels') = Len(labels)) =>
    \A i \in 1..Len(labels) :
      /\ labels[i] # 0 => labels'[i] = labels[i]
      /\ labels'[i] # labels[i] =>
           \E a \in 1..Len(orig_pts_idx) : orig_pts_idx[a] = i /\ labels'[i] = plane_num

\* C13: on return from get_planes, called with an empty output plane list,
\* every point with label 0 is at distance >= thr from every returned
\* plane, every point labelled in round j is at distance >= thr from the
\* refined planes of the earlier rounds, and each point is labelled in at
\* most one round, the original-index map of the working set staying
\* strictly increasing across compactions.
C13_UnlabelledPointsFitNoPlane ==
  /\ []C13_IndexMapIncreasing
  /\ []C13_LabelsSeparatePlanes
  /\ [][C13_LabelledOnce]_vars

\* get_planes returned two planes or more after a compaction that removed
\* the first input point, with unlabelled points and points of round 2 left
C13_CompactedAndReturned ==
  /\ pc = "done"
  /\ HandedIn = 0
  /\ Len(planes) >= 2
  /\ Len(orig_pts_idx) < Len(Cloud)
  /\ orig_pts_idx[1] > 1
  /\ \E i \in 1..Len(labels) : labels[i] = 0
  /\ \E i \in 1..Len(labels) : labels[i] = 2

====
